---- MODULE Spec2Model ----
(***************************************************************************)
(* A model of the causal mapping and confidence-scoring engine of          *)
(* OpenCausenx: the relevance filter, the rule and assumption catalogs,    *)
(* the impact classifier, the confidence aggregator and the mapping        *)
(* orchestrator (src/src/domain/causal-mapping, src/src/domain/models).    *)
(***************************************************************************)
EXTENDS Integers, Sequences, FiniteSets, TLC

(***************************************************************************)
(* NUMBERS.  A JavaScript number is modelled as an exact decimal fraction: *)
(* a sign and a little-endian sequence d of limbs in base 10^4, the first  *)
(* k of which are fractional.  Every literal of the code (0.9, 0.95, 1.1,  *)
(* 0.05, ...) is a decimal fraction, so products, sums and comparisons are *)
(* exact; the rounding of IEEE doubles is not modelled.  Numbers are kept  *)
(* in normal form (no high zero limb, no low zero limb among the           *)
(* fractional ones), so equal values are equal records.                    *)
(***************************************************************************)
Base == 100 * 100

RECURSIVE StripHigh(_)
StripHigh(d) ==
    IF d = <<>> THEN d
    ELSE IF d[Len(d)] = 0 THEN StripHigh(SubSeq(d, 1, Len(d) - 1))
    ELSE d

RECURSIVE StripLow(_, _)
StripLow(d, k) ==
    IF k > 0 /\ d # <<>> /\ d[1] = 0 THEN StripLow(Tail(d), k - 1)
    ELSE [d |-> d, k |-> k]

Norm(neg, d, k) ==
    LET h == StripHigh(d)
        l == StripLow(h, k)
    IN  IF h = <<>> THEN [neg |-> FALSE, d |-> <<>>, k |-> 0]
        ELSE [neg |-> neg, d |-> l.d, k |-> l.k]

RECURSIVE ToLimbs(_)
ToLimbs(n) == IF n = 0 THEN <<>> ELSE <<n % Base>> \o ToLimbs(n \div Base)

RECURSIVE Pow10(_)
Pow10(p) == IF p = 0 THEN 1 ELSE 10 * Pow10(p - 1)

\* The number n / 10^p, for an integer n and 0 <= p <= 4: Dec(85, 2) is 0.85.
Dec(n, p) ==
    LET a == IF n < 0 THEN 0 - n ELSE n
    IN  Norm(n < 0, ToLimbs(a * Pow10(4 - p)), 1)

Zero == Dec(0, 0)
One == Dec(1, 0)

RECURSIVE Zeros(_)
Zeros(n) == IF n <= 0 THEN <<>> ELSE <<0>> \o Zeros(n - 1)

\* The limbs of x with exactly k fractional limbs (k >= x.k).
Align(x, k) == Zeros(k - x.k) \o x.d

\* Column j of the schoolbook product of limb sequences a and b.
RECURSIVE ColSum(_, _, _, _)
ColSum(a, b, j, i) ==
    IF i > Len(a) THEN 0
    ELSE (IF j - i + 1 >= 1 /\ j - i + 1 <= Len(b) THEN a[i] * b[j - i + 1] ELSE 0)
         + ColSum(a, b, j, i + 1)

\* Carry propagation over the column sums cols, from column j on.
RECURSIVE Carry(_, _, _)
Carry(cols, j, c) ==
    IF j > Len(cols) THEN ToLimbs(c)
    ELSE <<(cols[j] + c) % Base>> \o Carry(cols, j + 1, (cols[j] + c) \div Base)

MagMul(a, b) ==
    IF a = <<>> \/ b = <<>> THEN <<>>
    ELSE Carry([j \in 1..(Len(a) + Len(b) - 1) |-> ColSum(a, b, j, 1)], 1, 0)

MagAdd(a, b) ==
    LET n == IF Len(a) > Len(b) THEN Len(a) ELSE Len(b)
        at(s, i) == IF i <= Len(s) THEN s[i] ELSE 0
    IN  Carry([j \in 1..n |-> at(a, j) + at(b, j)], 1, 0)

\* -1, 0 or 1 as magnitude a is below, equal to or above magnitude b
\* (both without high zero limbs).
RECURSIVE MagCmpFrom(_, _, _)
MagCmpFrom(a, b, i) ==
    IF i = 0 THEN 0
    ELSE IF a[i] < b[i] THEN -1
    ELSE IF a[i] > b[i] THEN 1
    ELSE MagCmpFrom(a, b, i - 1)

MagCmp(a, b) ==
    LET x == StripHigh(a)
        y == StripHigh(b)
    IN  IF Len(x) < Len(y) THEN -1
        ELSE IF Len(x) > Len(y) THEN 1
        ELSE MagCmpFrom(x, y, Len(x))

\* x * y
Mul(x, y) == Norm(x.neg # y.neg, MagMul(x.d, y.d), x.k + y.k)

\* x + y, for x and y that are not negative
Add(x, y) ==
    LET k == IF x.k > y.k THEN x.k ELSE y.k
    IN  Norm(FALSE, MagAdd(Align(x, k), Align(y, k)), k)

\* -1, 0 or 1 as x < y, x = y or x > y
Cmp(x, y) ==
    LET k == IF x.k > y.k THEN x.k ELSE y.k
        m == MagCmp(Align(x, k), Align(y, k))
    IN  IF x.neg /\ ~y.neg THEN -1
        ELSE IF ~x.neg /\ y.neg THEN 1
        ELSE IF x.neg THEN 0 - m
        ELSE m

Lt(x, y) == Cmp(x, y) < 0
Le(x, y) == Cmp(x, y) <= 0
Gt(x, y) == Cmp(x, y) > 0
Ge(x, y) == Cmp(x, y) >= 0

NumMin(x, y) == IF Lt(y, x) THEN y ELSE x
NumMax(x, y) == IF Gt(y, x) THEN y ELSE x

\* Math.pow(x, n) for a natural n
RECURSIVE NumPow(_, _)
NumPow(x, n) == IF n = 0 THEN One ELSE Mul(x, NumPow(x, n - 1))


(***************************************************************************)
(* STRINGS.  An event summary is a sequence of one-character strings, so   *)
(* that toLowerCase() and includes() are computed as the code computes     *)
(* them.  Other texts are kept as the literals and template arguments they *)
(* are built from.                                                         *)
(***************************************************************************)
UpperCase ==
    <<"A", "B", "C", "D", "E", "F", "G", "H", "I", "J", "K", "L", "M",
      "N", "O", "P", "Q", "R", "S", "T", "U", "V", "W", "X", "Y", "Z">>
LowerCase ==
    <<"a", "b", "c", "d", "e", "f", "g", "h", "i", "j", "k", "l", "m",
      "n", "o", "p", "q", "r", "s", "t", "u", "v", "w", "x", "y", "z">>

\* String.prototype.toLowerCase
toLowerCase(s) ==
    [i \in 1..Len(s) |->
        IF \E j \in 1..Len(UpperCase) : UpperCase[j] = s[i]
        THEN LowerCase[CHOOSE j \in 1..Len(UpperCase) : UpperCase[j] = s[i]]
        ELSE s[i]]

\* String.prototype.includes
includes(s, sub) ==
    \E i \in 1..(Len(s) - Len(sub) + 1) : SubSeq(s, i, i + Len(sub) - 1) = sub

\* Array.prototype.includes
arrayIncludes(arr, v) == \E i \in 1..Len(arr) : arr[i] = v

\* The first element of arr as <<element>>, or <<>> (undefined) when arr is
\* empty: Array.prototype.find(P) is first(SelectSeq(arr, P)).
first(arr) == IF arr = <<>> THEN <<>> ELSE <<arr[1]>>

\* [...new Set(arr)]: the elements of arr in order of first occurrence.
RECURSIVE dedupe(_)
dedupe(arr) ==
    IF arr = <<>> THEN <<>>
    ELSE LET init == dedupe(SubSeq(arr, 1, Len(arr) - 1))
             last == arr[Len(arr)]
         IN  IF arrayIncludes(init, last) THEN init ELSE Append(init, last)

(***************************************************************************)
(* ENUMERATIONS (types.ts)                                                 *)
(***************************************************************************)
EventType ==
    {"REGULATION_CHANGE", "ECONOMIC_INDICATOR", "LABOR_MARKET", "GEOPOLITICAL",
     "INFRASTRUCTURE", "MARKET_SHIFT", "TECHNOLOGY", "CURRENCY", "DISASTER"}

BusinessDriverType ==
    {"SUBSCRIPTION_REVENUE", "USAGE_REVENUE", "SERVICES_REVENUE", "LABOR_COSTS",
     "INFRASTRUCTURE_COSTS", "SALES_MARKETING", "R_AND_D", "ADMINISTRATIVE"}

SensitivityFactor == {"LABOR", "INFRASTRUCTURE", "FX", "REGULATION", "MARKET_DEMAND"}

ImpactDirection == {"INCREASE", "DECREASE", "NEUTRAL"}

ImpactMagnitude == {"LOW", "MEDIUM", "HIGH"}

TimeHorizon == {"SHORT", "MEDIUM", "LONG"}

\* Array.prototype.join over texts: each element of parts is a text (a sequence
\* of fragments), sep is a literal.
RECURSIVE join(_, _)
join(parts, sep) ==
    IF parts = <<>> THEN <<>>
    ELSE IF Len(parts) = 1 THEN parts[1]
    ELSE parts[1] \o <<sep>> \o join(Tail(parts), sep)

\* The integer value of a number that is a natural below Base * Base.
NumToInt(n) ==
    IF Len(n.d) = 0 THEN 0
    ELSE IF Len(n.d) = 1 THEN n.d[1]
    ELSE n.d[1] + Base * n.d[2]

\* Number.prototype.toFixed(0) of a number that is not negative: the nearest
\* integer, the larger one of two equally near, as a text.
toFixed0(n) ==
    LET int == SubSeq(n.d, n.k + 1, Len(n.d))
        up == n.k >= 1 /\ Len(n.d) >= n.k /\ n.d[n.k] >= Base \div 2
        r == Norm(FALSE, MagAdd(int, IF up THEN <<1>> ELSE <<>>), 0)
    IN  ToString(NumToInt(r))

(***************************************************************************)
(* RULE CATALOG (rules.ts)                                                 *)
(***************************************************************************)
\* One entry of a rule's getCausalPath template.  arg names what the
\* mechanism interpolates: the event summary ("event"), the business context
\* after the literal text ("context"), or nothing ("none").
StepT(n, desc, text, arg, conf) ==
    [step |-> n, description |-> desc, text |-> text, arg |-> arg, confidence |-> conf]

Rule(t, drivers, factor, dir, horizon, steps) ==
    [eventType |-> t, affectedDrivers |-> drivers, sensitivityFactor |-> factor,
     defaultDirection |-> dir, timeHorizon |-> horizon, steps |-> steps]

CAUSAL_RULES ==
    [t \in EventType |->
      CASE t = "LABOR_MARKET" ->
        Rule(t, <<"LABOR_COSTS", "R_AND_D", "SALES_MARKETING">>, "LABOR", "INCREASE", "MEDIUM",
          <<StepT(1, "Labor market event occurs", "", "event", Dec(9, 1)),
            StepT(2, "Wage pressure affects hiring and retention costs",
                  "Competitive labor market forces businesses to raise wages to attract and retain talent.",
                  "none", Dec(85, 2)),
            StepT(3, "Increased labor costs flow through to P&L",
                  "Labor costs represent a significant portion of expenses. ", "context", Dec(8, 1))>>)
        [] t = "INFRASTRUCTURE" ->
        Rule(t, <<"INFRASTRUCTURE_COSTS">>, "INFRASTRUCTURE", "INCREASE", "SHORT",
          <<StepT(1, "Infrastructure event occurs", "", "event", Dec(9, 1)),
            StepT(2, "Cloud or infrastructure pricing changes",
                  "Cloud providers adjust pricing based on energy costs, capacity, and market conditions.",
                  "none", Dec(85, 2)),
            StepT(3, "Changed costs flow through to next billing cycle",
                  "SaaS companies use cloud infrastructure on a pay-as-you-go basis. ", "context", Dec(9, 1))>>)
        [] t = "REGULATION_CHANGE" ->
        Rule(t, <<"LABOR_COSTS", "INFRASTRUCTURE_COSTS", "ADMINISTRATIVE">>, "REGULATION", "INCREASE", "MEDIUM",
          <<StepT(1, "Regulatory change announced or enacted", "", "event", Dec(9, 1)),
            StepT(2, "Business must invest in compliance",
                  "New regulations require legal review, technical implementation, process changes, and ongoing monitoring.",
                  "none", Dec(8, 1)),
            StepT(3, "Compliance costs increase operating expenses",
                  "Regulatory compliance adds permanent overhead. ", "context", Dec(75, 2))>>)
        [] t = "ECONOMIC_INDICATOR" ->
        Rule(t, <<"SUBSCRIPTION_REVENUE", "LABOR_COSTS", "INFRASTRUCTURE_COSTS">>, "MARKET_DEMAND", "NEUTRAL", "MEDIUM",
          <<StepT(1, "Economic indicator changes", "", "event", Dec(95, 2)),
            StepT(2, "Affects customer spending and business investment",
                  "Macroeconomic conditions influence customer budgets and willingness to spend on software.",
                  "none", Dec(7, 1)),
            StepT(3, "Revenue and cost pressures adjust",
                  "Economic conditions affect both demand (revenue) and input costs. ", "context", Dec(65, 2))>>)
        [] t = "CURRENCY" ->
        Rule(t, <<"SUBSCRIPTION_REVENUE", "LABOR_COSTS", "INFRASTRUCTURE_COSTS">>, "FX", "NEUTRAL", "SHORT",
          <<StepT(1, "Foreign exchange rate changes", "", "event", Dec(95, 2)),
            StepT(2, "Translation effects on international operations",
                  "Foreign currency revenue and costs are translated to reporting currency at new rates.",
                  "none", Dec(9, 1)),
            StepT(3, "Net FX impact on financial results",
                  "FX affects both revenue (international customers) and costs (international operations). ",
                  "context", Dec(85, 2))>>)
        [] t = "GEOPOLITICAL" ->
        Rule(t, <<"SUBSCRIPTION_REVENUE", "SALES_MARKETING">>, "MARKET_DEMAND", "DECREASE", "SHORT",
          <<StepT(1, "Geopolitical event creates uncertainty", "", "event", Dec(8, 1)),
            StepT(2, "Market uncertainty reduces customer spending",
                  "Businesses delay purchases and reduce budgets during periods of geopolitical instability.",
                  "none", Dec(6, 1)),
            StepT(3, "Revenue growth slows",
                  "Reduced customer acquisition and potential churn. ", "context", Dec(5, 1))>>)
        [] t = "MARKET_SHIFT" ->
        Rule(t, <<"SUBSCRIPTION_REVENUE", "SALES_MARKETING">>, "MARKET_DEMAND", "NEUTRAL", "MEDIUM",
          <<StepT(1, "Market dynamics change", "", "event", Dec(7, 1)),
            StepT(2, "Customer demand patterns shift",
                  "Market shifts affect customer needs, competitive landscape, and pricing power.",
                  "none", Dec(6, 1)),
            StepT(3, "Revenue and customer acquisition costs affected",
                  "Changed market conditions require business adaptation. ", "context", Dec(55, 2))>>)
        [] t = "TECHNOLOGY" ->
        Rule(t, <<"R_AND_D", "INFRASTRUCTURE_COSTS">>, "INFRASTRUCTURE", "NEUTRAL", "LONG",
          <<StepT(1, "Technology change occurs", "", "event", Dec(7, 1)),
            StepT(2, "May require technology stack adaptation",
                  "New technologies can create opportunities (efficiency) or threats (competitive pressure).",
                  "none", Dec(5, 1)),
            StepT(3, "R&D and infrastructure investments adjust",
                  "Technology evolution affects development priorities and infrastructure choices. ",
                  "context", Dec(45, 2))>>)
        [] t = "DISASTER" ->
        Rule(t, <<"INFRASTRUCTURE_COSTS", "SUBSCRIPTION_REVENUE">>, "MARKET_DEMAND", "NEUTRAL", "SHORT",
          <<StepT(1, "Disaster event occurs", "", "event", Dec(9, 1)),
            StepT(2, "Regional disruption affects operations",
                  "Natural disasters disrupt infrastructure, workforce, and customer operations in affected regions.",
                  "none", Dec(7, 1)),
            StepT(3, "Business continuity and recovery costs",
                  "Impact depends on regional exposure. ", "context", Dec(6, 1))>>)]

\* CAUSAL_RULES[eventType] as <<rule>>, or <<>> (undefined) for a value that is
\* no key of the catalog.
\* Mutant of getCausalRule: a category without a rule gets the MARKET_SHIFT
\* rule.
getCausalRule_Fallback(eventType) ==
    IF eventType \in DOMAIN CAUSAL_RULES THEN <<CAUSAL_RULES[eventType]>>
    ELSE <<CAUSAL_RULES["MARKET_SHIFT"]>>

getCausalRule(eventType) ==
    IF eventType \in DOMAIN CAUSAL_RULES THEN <<CAUSAL_RULES[eventType]>> ELSE <<>>

\* Mutant of getCausalPath: no step is produced when the business context is
\* empty.
getCausalPath_NeedsContext(rule, eventSummary, businessContext) ==
    IF businessContext = <<>> THEN <<>>
    ELSE [i \in 1..Len(rule.steps) |->
            LET t == rule.steps[i]
            IN  [step |-> t.step,
                 description |-> t.description,
                 mechanism |-> IF t.arg = "event" THEN eventSummary
                               ELSE IF t.arg = "context" THEN <<t.text>> \o businessContext
                               ELSE <<t.text>>,
                 confidence |-> t.confidence]]

\* Mutant of getCausalPath: the steps are numbered from 0.
getCausalPath_FromZero(rule, eventSummary, businessContext) ==
    [i \in 1..Len(rule.steps) |->
        LET t == rule.steps[i]
        IN  [step |-> i - 1,
             description |-> t.description,
             mechanism |-> IF t.arg = "event" THEN eventSummary
                           ELSE IF t.arg = "context" THEN <<t.text>> \o businessContext
                           ELSE <<t.text>>,
             confidence |-> t.confidence]]

\* rule.getCausalPath(eventSummary, businessContext)
getCausalPath(rule, eventSummary, businessContext) ==
    [i \in 1..Len(rule.steps) |->
        LET t == rule.steps[i]
        IN  [step |-> t.step,
             description |-> t.description,
             mechanism |-> IF t.arg = "event" THEN eventSummary
                           ELSE IF t.arg = "context" THEN <<t.text>> \o businessContext
                           ELSE <<t.text>>,
             confidence |-> t.confidence]]

\* Mutant of isHighConfidenceRule: CURRENCY is left out of the list.
isHighConfidenceRule_NoCurrency(eventType) ==
    arrayIncludes(<<"LABOR_MARKET", "INFRASTRUCTURE", "ECONOMIC_INDICATOR">>, eventType)

isHighConfidenceRule(eventType) ==
    arrayIncludes(<<"LABOR_MARKET", "INFRASTRUCTURE", "ECONOMIC_INDICATOR", "CURRENCY">>, eventType)

(***************************************************************************)
(* ASSUMPTION CATALOG (assumptions.ts)                                     *)
(***************************************************************************)
Assumption(id, desc, impact, source) ==
    [id |-> id, description |-> desc, impact |-> impact, source |-> source]

CORE_ASSUMPTIONS ==
    [key \in {"LABOR_WAGES_AFFECT_COSTS", "LABOR_COSTS_PROPORTIONAL", "LABOR_CHANGES_GRADUAL",
              "INFRASTRUCTURE_COSTS_VARIABLE", "INFRASTRUCTURE_IMPACT_IMMEDIATE",
              "REGULATION_REQUIRES_COMPLIANCE", "REGULATION_MEDIUM_TERM", "GDP_AFFECTS_DEMAND",
              "INFLATION_AFFECTS_COSTS", "INTEREST_RATES_AFFECT_GROWTH", "FX_AFFECTS_INTERNATIONAL",
              "FX_REVENUE_AND_COSTS", "GEOPOLITICAL_CREATES_UNCERTAINTY", "DISASTER_REGIONAL_IMPACT"} |->
      CASE key = "LABOR_WAGES_AFFECT_COSTS" ->
             Assumption(key, "Wage increases in the labor market directly increase labor costs for businesses.",
                        "HIGH", "Economic principle: labor as a cost component")
        [] key = "LABOR_COSTS_PROPORTIONAL" ->
             Assumption(key, "Labor cost changes are roughly proportional to the weight of labor in total costs.",
                        "HIGH", "Basic accounting: cost structure drives impact magnitude")
        [] key = "LABOR_CHANGES_GRADUAL" ->
             Assumption(key, "Labor market changes take 3-12 months to fully impact business costs.",
                        "MEDIUM", "Typical employment contract and hiring cycles")
        [] key = "INFRASTRUCTURE_COSTS_VARIABLE" ->
             Assumption(key, "Cloud and infrastructure costs are variable and adjust with usage and pricing.",
                        "HIGH", "SaaS industry standard: pay-as-you-go pricing models")
        [] key = "INFRASTRUCTURE_IMPACT_IMMEDIATE" ->
             Assumption(key, "Infrastructure price changes affect costs within 0-3 months.",
                        "MEDIUM", "Cloud provider pricing updates apply to next billing cycle")
        [] key = "REGULATION_REQUIRES_COMPLIANCE" ->
             Assumption(key, "New regulations require businesses to invest in compliance measures.",
                        "HIGH", "Legal requirement: non-compliance risks fines and operations")
        [] key = "REGULATION_MEDIUM_TERM" ->
             Assumption(key, "Regulatory impacts typically materialize over 3-12 months.",
                        "MEDIUM", "Typical grace periods and implementation timelines")
        [] key = "GDP_AFFECTS_DEMAND" ->
             Assumption(key, "GDP growth/decline affects customer spending and demand for services.",
                        "HIGH", "Macroeconomic principle: GDP correlates with business activity")
        [] key = "INFLATION_AFFECTS_COSTS" ->
             Assumption(key, "Inflation increases costs across all categories (labor, infrastructure, etc.).",
                        "HIGH", "Monetary principle: purchasing power affects all prices")
        [] key = "INTEREST_RATES_AFFECT_GROWTH" ->
             Assumption(key, "Higher interest rates reduce customer spending and business investment.",
                        "MEDIUM", "Monetary policy: cost of capital affects growth")
        [] key = "FX_AFFECTS_INTERNATIONAL" ->
             Assumption(key, "Currency changes only affect businesses with international operations or customers.",
                        "HIGH", "Basic FX exposure: requires cross-border transactions")
        [] key = "FX_REVENUE_AND_COSTS" ->
             Assumption(key, "Foreign exchange affects both revenue (if international customers) and costs (if international operations).",
                        "MEDIUM", "Accounting standard: FX translation affects both sides of P&L")
        [] key = "GEOPOLITICAL_CREATES_UNCERTAINTY" ->
             Assumption(key, "Geopolitical events create market uncertainty and reduce customer spending.",
                        "MEDIUM", "Behavioral economics: uncertainty reduces risk-taking")
        [] key = "DISASTER_REGIONAL_IMPACT" ->
             Assumption(key, "Natural disasters primarily affect businesses in or dependent on the affected region.",
                        "HIGH", "Geographic constraint: physical disruption is localized")]

assumptionMap ==
    [t \in EventType |->
      CASE t = "LABOR_MARKET" ->
             <<"LABOR_WAGES_AFFECT_COSTS", "LABOR_COSTS_PROPORTIONAL", "LABOR_CHANGES_GRADUAL">>
        [] t = "INFRASTRUCTURE" ->
             <<"INFRASTRUCTURE_COSTS_VARIABLE", "INFRASTRUCTURE_IMPACT_IMMEDIATE">>
        [] t = "REGULATION_CHANGE" ->
             <<"REGULATION_REQUIRES_COMPLIANCE", "REGULATION_MEDIUM_TERM">>
        [] t = "ECONOMIC_INDICATOR" ->
             <<"GDP_AFFECTS_DEMAND", "INFLATION_AFFECTS_COSTS", "INTEREST_RATES_AFFECT_GROWTH">>
        [] t = "CURRENCY" -> <<"FX_AFFECTS_INTERNATIONAL", "FX_REVENUE_AND_COSTS">>
        [] t = "GEOPOLITICAL" -> <<"GEOPOLITICAL_CREATES_UNCERTAINTY">>
        [] t = "DISASTER" -> <<"DISASTER_REGIONAL_IMPACT">>
        [] t = "MARKET_SHIFT" -> <<"GDP_AFFECTS_DEMAND">>
        [] t = "TECHNOLOGY" -> <<>>]

getAssumptionsForEventType(eventType) ==
    LET assumptionKeys == IF eventType \in DOMAIN assumptionMap THEN assumptionMap[eventType] ELSE <<>>
        known(key) == key \in DOMAIN CORE_ASSUMPTIONS
        keys == SelectSeq(assumptionKeys, known)
    IN  [i \in 1..Len(keys) |-> CORE_ASSUMPTIONS[keys[i]]]

\* The warnings of validateAssumptionsForBusiness, in the order of the loop
\* over the assumptions.
RECURSIVE validationWarnings(_, _)
validationWarnings(assumptions, businessContext) ==
    IF assumptions = <<>> THEN <<>>
    ELSE LET assumption == Head(assumptions)
         IN  (IF /\ assumption.id = "FX_AFFECTS_INTERNATIONAL"
                 /\ ~businessContext.hasInternationalOperations
                 /\ ~businessContext.hasInternationalCustomers
              THEN <<"FX impact may be minimal: business operates only domestically.">>
              ELSE <<>>)
             \o (IF /\ assumption.id = "DISASTER_REGIONAL_IMPACT"
                    /\ ~businessContext.operatesInRegion
                 THEN <<"Regional event may not affect business: no presence in affected region.">>
                 ELSE <<>>)
             \o validationWarnings(Tail(assumptions), businessContext)

validateAssumptionsForBusiness(assumptions, businessContext) ==
    [valid |-> TRUE, warnings |-> validationWarnings(assumptions, businessContext)]

(***************************************************************************)
(* EVENT (Event.ts).  An event is a record [id, eventType, summary, region,*)
(* timestamp, confidenceScore]; the fields the mapper never reads          *)
(* (affectedEntities, source, sourceId, metadata, createdAt) are left out. *)
(* Time is counted in ticks, TicksPerDay of them to the day; Date.now() is *)
(* the parameter now.                                                      *)
(***************************************************************************)
TicksPerDay == 4

isRelevantToRegion(event, regions) ==
    arrayIncludes(regions, event.region) \/ event.region = "GLOBAL"

\* Mutant of isRecent: ageInDays < days
isRecent_Strict(event, days, now) == now - event.timestamp < days * TicksPerDay

\* ageInDays <= days, with ageInDays the exact quotient (now - timestamp) / TicksPerDay
isRecent(event, days, now) == now - event.timestamp <= days * TicksPerDay

\* Math.floor of the same quotient
getAgeInDays(event, now) == (now - event.timestamp) \div TicksPerDay

\* Mutant of Event.calculateConfidence: the result is not clamped.
Event_calculateConfidence_Unclamped(sourceReliability, hasSpecificRegion, hasTimestamp, summaryLength) ==
    LET c1 == IF ~hasSpecificRegion THEN Mul(sourceReliability, Dec(8, 1)) ELSE sourceReliability
        c2 == IF ~hasTimestamp THEN Mul(c1, Dec(7, 1)) ELSE c1
    IN  IF summaryLength < 50 \/ summaryLength > 1000 THEN Mul(c2, Dec(9, 1)) ELSE c2

\* The static Event.calculateConfidence (the mapper has a function of the
\* same name).
Event_calculateConfidence(sourceReliability, hasSpecificRegion, hasTimestamp, summaryLength) ==
    LET c1 == IF ~hasSpecificRegion THEN Mul(sourceReliability, Dec(8, 1)) ELSE sourceReliability
        c2 == IF ~hasTimestamp THEN Mul(c1, Dec(7, 1)) ELSE c1
        c3 == IF summaryLength < 50 \/ summaryLength > 1000 THEN Mul(c2, Dec(9, 1)) ELSE c2
    IN  NumMax(Zero, NumMin(One, c3))

(***************************************************************************)
(* BUSINESS MODEL (BusinessModel.ts).  A business model is a record [id,   *)
(* revenueDrivers, costDrivers, sensitivities, operatingRegions,           *)
(* customerRegions].                                                       *)
(***************************************************************************)
\* a || b for an optional number a (<<>> is undefined): b when a is undefined or 0
orElse(a, b) == IF a = <<>> \/ a[1] = Zero THEN b ELSE a[1]

getDriverWeight(businessModel, driver) ==
    LET allDrivers == businessModel.revenueDrivers \o businessModel.costDrivers
        is(d) == d.driver = driver
        found == first(SelectSeq(allDrivers, is))
    IN  orElse(IF found = <<>> THEN <<>> ELSE <<found[1].weight>>, Zero)

getSensitivity(businessModel, factor) ==
    LET is(s) == s.factor = factor
        found == first(SelectSeq(businessModel.sensitivities, is))
    IN  orElse(IF found = <<>> THEN <<>> ELSE <<found[1].sensitivity>>, Dec(5, 1))

\* Mutant of hasRegionalExposure: only the operating regions count.
hasRegionalExposure_OperatingOnly(businessModel, region) ==
    arrayIncludes(businessModel.operatingRegions, region)

hasRegionalExposure(businessModel, region) ==
    \/ arrayIncludes(businessModel.operatingRegions, region)
    \/ arrayIncludes(businessModel.customerRegions, region)
    \/ region = "GLOBAL"

\* Mutant of getAllRelevantRegions: the customer regions are forgotten.
getAllRelevantRegions_OperatingOnly(businessModel) ==
    dedupe(businessModel.operatingRegions)

getAllRelevantRegions(businessModel) ==
    dedupe(businessModel.operatingRegions \o businessModel.customerRegions)

(***************************************************************************)
(* CAUSAL MAPPER (mapper.ts)                                               *)
(***************************************************************************)
RECENCY_DAYS == 90

\* Mutant of belowConfidenceFloor: event.confidenceScore <= 0.3
belowConfidenceFloor_Inclusive(event) == Le(event.confidenceScore, Dec(3, 1))

\* Check 3 of checkRelevance: event.confidenceScore < 0.3
belowConfidenceFloor(event) == Lt(event.confidenceScore, Dec(3, 1))

\* Mutant of checkRelevance: the confidence floor is checked first.
checkRelevance_FloorFirst(event, businessModel, now) ==
    IF belowConfidenceFloor(event)
    THEN [isRelevant |-> FALSE,
          reason |-> <<"Event has very low confidence score and may not be reliable">>]
    ELSE IF ~isRelevantToRegion(event, getAllRelevantRegions(businessModel))
    THEN [isRelevant |-> FALSE,
          reason |-> <<"Event in ", event.region, " does not affect business operating in ">>
                     \o join([i \in 1..Len(getAllRelevantRegions(businessModel)) |->
                                 <<getAllRelevantRegions(businessModel)[i]>>], ", ")]
    ELSE IF ~isRecent(event, RECENCY_DAYS, now)
    THEN [isRelevant |-> FALSE,
          reason |-> <<"Event is ", ToString(getAgeInDays(event, now)),
                       " days old and likely no longer relevant">>]
    ELSE [isRelevant |-> TRUE,
          reason |-> <<"Event is geographically relevant, recent, and from reliable source">>]

checkRelevance(event, businessModel, now) ==
    IF ~isRelevantToRegion(event, getAllRelevantRegions(businessModel))
    THEN [isRelevant |-> FALSE,
          reason |-> <<"Event in ", event.region, " does not affect business operating in ">>
                     \o join([i \in 1..Len(getAllRelevantRegions(businessModel)) |->
                                 <<getAllRelevantRegions(businessModel)[i]>>], ", ")]
    ELSE IF ~isRecent(event, RECENCY_DAYS, now)
    THEN [isRelevant |-> FALSE,
          reason |-> <<"Event is ", ToString(getAgeInDays(event, now)),
                       " days old and likely no longer relevant">>]
    ELSE IF belowConfidenceFloor(event)
    THEN [isRelevant |-> FALSE,
          reason |-> <<"Event has very low confidence score and may not be reliable">>]
    ELSE [isRelevant |-> TRUE,
          reason |-> <<"Event is geographically relevant, recent, and from reliable source">>]

RECURSIVE contextParts(_, _)
contextParts(businessModel, affectedDrivers) ==
    IF affectedDrivers = <<>> THEN <<>>
    ELSE LET driver == Head(affectedDrivers)
             weight == getDriverWeight(businessModel, driver)
         IN  (IF Gt(weight, Zero)
              THEN <<<<driver, " represents ", toFixed0(Mul(weight, Dec(100, 0))),
                       "% of business structure">>>>
              ELSE <<>>)
             \o contextParts(businessModel, Tail(affectedDrivers))

buildBusinessContext(businessModel, affectedDrivers) ==
    join(contextParts(businessModel, affectedDrivers), ". ")

\* The keywords of determineImpactDirection, as texts of characters.
KW_increase == <<"i", "n", "c", "r", "e", "a", "s", "e">>
KW_rise == <<"r", "i", "s", "e">>
KW_growth == <<"g", "r", "o", "w", "t", "h">>
KW_up == <<"u", "p">>
KW_decrease == <<"d", "e", "c", "r", "e", "a", "s", "e">>
KW_decline == <<"d", "e", "c", "l", "i", "n", "e">>
KW_fall == <<"f", "a", "l", "l">>
KW_down == <<"d", "o", "w", "n">>

\* Mutant of determineImpactDirection: the decrease keywords are looked for
\* first.
determineImpactDirection_DecreaseFirst(event, rule) ==
    LET summary == toLowerCase(event.summary)
    IN  IF \/ includes(summary, KW_decrease)
           \/ includes(summary, KW_decline)
           \/ includes(summary, KW_fall)
           \/ includes(summary, KW_down)
        THEN "DECREASE"
        ELSE IF \/ includes(summary, KW_increase)
                \/ includes(summary, KW_rise)
                \/ includes(summary, KW_growth)
                \/ includes(summary, KW_up)
        THEN "INCREASE"
        ELSE rule.defaultDirection

determineImpactDirection(event, rule) ==
    LET summary == toLowerCase(event.summary)
    IN  IF \/ includes(summary, KW_increase)
           \/ includes(summary, KW_rise)
           \/ includes(summary, KW_growth)
           \/ includes(summary, KW_up)
        THEN "INCREASE"
        ELSE IF \/ includes(summary, KW_decrease)
                \/ includes(summary, KW_decline)
                \/ includes(summary, KW_fall)
                \/ includes(summary, KW_down)
        THEN "DECREASE"
        ELSE rule.defaultDirection

\* The loop of calculateImpactMagnitude: totalWeight += getDriverWeight(driver)
RECURSIVE totalWeight(_, _)
totalWeight(businessModel, affectedDrivers) ==
    IF affectedDrivers = <<>> THEN Zero
    ELSE Add(totalWeight(businessModel, SubSeq(affectedDrivers, 1, Len(affectedDrivers) - 1)),
             getDriverWeight(businessModel, affectedDrivers[Len(affectedDrivers)]))

rawMagnitude(event, businessModel, affectedDrivers, sensitivityFactor) ==
    Mul(Mul(totalWeight(businessModel, affectedDrivers),
            getSensitivity(businessModel, sensitivityFactor)),
        event.confidenceScore)

calculateImpactMagnitude(event, businessModel, affectedDrivers, sensitivityFactor) ==
    LET raw == rawMagnitude(event, businessModel, affectedDrivers, sensitivityFactor)
    IN  IF Gt(raw, Dec(5, 2)) THEN "HIGH"
        ELSE IF Gt(raw, Dec(2, 2)) THEN "MEDIUM"
        ELSE "LOW"

\* Mutant of pathConfidence: the confidence of the last step alone.
pathConfidence_LastStep(causalPath) ==
    IF causalPath = <<>> THEN One ELSE causalPath[Len(causalPath)].confidence

\* causalPath.reduce((acc, step) => acc * step.confidence, 1.0)
RECURSIVE pathConfidence(_)
pathConfidence(causalPath) ==
    IF causalPath = <<>> THEN One
    ELSE Mul(pathConfidence(SubSeq(causalPath, 1, Len(causalPath) - 1)),
             causalPath[Len(causalPath)].confidence)

\* Mutant of calculateConfidence: the result is not clamped.
calculateConfidence_Unclamped(event, causalPath, businessModel, sensitivityFactor, assumptionCount) ==
    LET c1 == Mul(event.confidenceScore, pathConfidence(causalPath))
        c2 == IF isHighConfidenceRule(event.eventType) THEN Mul(c1, One) ELSE Mul(c1, Dec(9, 1))
        c3 == Mul(c2, NumPow(Dec(95, 2), assumptionCount))
        sensitivity == getSensitivity(businessModel, sensitivityFactor)
    IN  IF Gt(sensitivity, Dec(7, 1)) THEN Mul(c3, Dec(11, 1)) ELSE c3

\* Mutant of calculateConfidence: a penalty when validation raises a warning
\* (a business without international operations and customers).
calculateConfidence_WarningPenalty(event, causalPath, businessModel, sensitivityFactor, assumptionCount) ==
    LET c1 == Mul(event.confidenceScore, pathConfidence(causalPath))
        c2 == IF isHighConfidenceRule(event.eventType) THEN Mul(c1, One) ELSE Mul(c1, Dec(9, 1))
        c3 == Mul(c2, NumPow(Dec(95, 2), assumptionCount))
        sensitivity == getSensitivity(businessModel, sensitivityFactor)
        c4 == IF Gt(sensitivity, Dec(7, 1)) THEN Mul(c3, Dec(11, 1)) ELSE c3
        c5 == IF businessModel.operatingRegions = <<"US">> /\ businessModel.customerRegions = <<"US">>
              THEN Mul(c4, Dec(9, 1)) ELSE c4
    IN  NumMax(Zero, NumMin(One, c5))

calculateConfidence(event, causalPath, businessModel, sensitivityFactor, assumptionCount) ==
    LET c1 == Mul(event.confidenceScore, pathConfidence(causalPath))
        c2 == IF isHighConfidenceRule(event.eventType) THEN Mul(c1, One) ELSE Mul(c1, Dec(9, 1))
        c3 == Mul(c2, NumPow(Dec(95, 2), assumptionCount))
        sensitivity == getSensitivity(businessModel, sensitivityFactor)
        c4 == IF Gt(sensitivity, Dec(7, 1)) THEN Mul(c3, Dec(11, 1)) ELSE c3
    IN  NumMax(Zero, NumMin(One, c4))

\* Mutant of generateConfidenceRationale: every assumption is counted as
\* critical.
generateConfidenceRationale_CountsAll(event, causalPath, assumptions, warnings) ==
    LET highImpact == Len(assumptions)
        parts ==
            << IF Ge(event.confidenceScore, Dec(8, 1)) THEN <<"Event from highly reliable source">>
               ELSE IF Ge(event.confidenceScore, Dec(6, 1)) THEN <<"Event from moderately reliable source">>
               ELSE <<"Event from uncertain or unverified source">> >>
            \o << IF isHighConfidenceRule(event.eventType)
                  THEN <<"well-established causal relationship">>
                  ELSE <<"uncertain or indirect causal relationship">> >>
            \o << IF Len(causalPath) <= 2 THEN <<"direct impact">>
                  ELSE <<ToString(Len(causalPath)), "-step causal chain">> >>
            \o (IF Len(assumptions) > 0 /\ highImpact > 0
                THEN << <<ToString(highImpact), " critical assumption(s)">> >>
                ELSE <<>>)
            \o (IF Len(warnings) > 0
                THEN << <<ToString(Len(warnings)), " caveat(s)">> >>
                ELSE <<>>)
    IN  join(parts, "; ") \o <<".">>

generateConfidenceRationale(event, causalPath, assumptions, warnings) ==
    LET isHigh(a) == a.impact = "HIGH"
        highImpact == Len(SelectSeq(assumptions, isHigh))
        parts ==
            << IF Ge(event.confidenceScore, Dec(8, 1)) THEN <<"Event from highly reliable source">>
               ELSE IF Ge(event.confidenceScore, Dec(6, 1)) THEN <<"Event from moderately reliable source">>
               ELSE <<"Event from uncertain or unverified source">> >>
            \o << IF isHighConfidenceRule(event.eventType)
                  THEN <<"well-established causal relationship">>
                  ELSE <<"uncertain or indirect causal relationship">> >>
            \o << IF Len(causalPath) <= 2 THEN <<"direct impact">>
                  ELSE <<ToString(Len(causalPath)), "-step causal chain">> >>
            \o (IF Len(assumptions) > 0 /\ highImpact > 0
                THEN << <<ToString(highImpact), " critical assumption(s)">> >>
                ELSE <<>>)
            \o (IF Len(warnings) > 0
                THEN << <<ToString(Len(warnings)), " caveat(s)">> >>
                ELSE <<>>)
    IN  join(parts, "; ") \o <<".">>

\* hasInternationalOperations / hasInternationalCustomers of step 6:
\* regions.some((r) => r !== 'US' || regions.length > 1)
hasInternational(regions) ==
    \E i \in 1..Len(regions) : regions[i] # "US" \/ Len(regions) > 1

\* What a call of mapEventToBusiness ends with: the mapping it returns, or a
\* TypeError thrown on reading a property of an undefined rule.
Returned(m) == [kind |-> "returned", mapping |-> m]
Threw == [kind |-> "threw", mapping |-> <<>>]

\* Mutant of nullMapping: the event's confidence is passed on as the score.
nullMapping_KeepsEventConfidence(event, businessModel, relevance) ==
    [event |-> event,
     businessModel |-> businessModel,
     affectedDrivers |-> <<>>,
     impactDirection |-> "NEUTRAL",
     impactMagnitude |-> "LOW",
     timeHorizon |-> "SHORT",
     causalPath |-> <<>>,
     assumptions |-> <<>>,
     confidenceScore |-> event.confidenceScore,
     confidenceRationale |-> relevance.reason,
     isRelevant |-> FALSE,
     relevanceReason |-> relevance.reason]

\* The mapping returned when the relevance filter rejects the event.
nullMapping(event, businessModel, relevance) ==
    [event |-> event,
     businessModel |-> businessModel,
     affectedDrivers |-> <<>>,
     impactDirection |-> "NEUTRAL",
     impactMagnitude |-> "LOW",
     timeHorizon |-> "SHORT",
     causalPath |-> <<>>,
     assumptions |-> <<>>,
     confidenceScore |-> Zero,
     confidenceRationale |-> relevance.reason,
     isRelevant |-> FALSE,
     relevanceReason |-> relevance.reason]

mapEventToBusiness(event, businessModel, now) ==
    LET relevance == checkRelevance(event, businessModel, now)
        rule == getCausalRule(event.eventType)
    IN  IF ~relevance.isRelevant
        THEN Returned(nullMapping(event, businessModel, relevance))
        ELSE IF rule = <<>> THEN Threw
        ELSE
        LET r == rule[1]
            businessContext == buildBusinessContext(businessModel, r.affectedDrivers)
            causalPath == getCausalPath(r, event.summary, businessContext)
            assumptions == getAssumptionsForEventType(event.eventType)
            assumptionValidation ==
                validateAssumptionsForBusiness(assumptions,
                    [hasInternationalOperations |-> hasInternational(businessModel.operatingRegions),
                     hasInternationalCustomers |-> hasInternational(businessModel.customerRegions),
                     operatesInRegion |-> hasRegionalExposure(businessModel, event.region)])
            impactDirection == determineImpactDirection(event, r)
            impactMagnitude ==
                calculateImpactMagnitude(event, businessModel, r.affectedDrivers, r.sensitivityFactor)
            confidenceScore ==
                calculateConfidence(event, causalPath, businessModel, r.sensitivityFactor,
                                    Len(assumptions))
            confidenceRationale ==
                generateConfidenceRationale(event, causalPath, assumptions,
                                            assumptionValidation.warnings)
        IN  Returned([event |-> event,
                      businessModel |-> businessModel,
                      affectedDrivers |-> r.affectedDrivers,
                      impactDirection |-> impactDirection,
                      impactMagnitude |-> impactMagnitude,
                      timeHorizon |-> r.timeHorizon,
                      causalPath |-> causalPath,
                      assumptions |-> assumptions,
                      confidenceScore |-> confidenceScore,
                      confidenceRationale |-> confidenceRationale,
                      isRelevant |-> TRUE,
                      relevanceReason |-> relevance.reason])

\* The value a const declaration binds: the one element of a singleton set,
\* so that the bound expression is evaluated once.
TheOne(S) == CHOOSE x \in S : TRUE

\* getMagnitudeWeight
getMagnitudeWeight(magnitude) ==
    CASE magnitude = "HIGH" -> Dec(3, 0)
      [] magnitude = "MEDIUM" -> Dec(2, 0)
      [] magnitude = "LOW" -> One

\* Mutant of compareMappings: ascending order.
compareMappings_Ascending(a, b) ==
    LET scoreA == Mul(a.confidenceScore, getMagnitudeWeight(a.impactMagnitude))
        scoreB == Mul(b.confidenceScore, getMagnitudeWeight(b.impactMagnitude))
    IN  Cmp(scoreA, scoreB)

\* The comparator of the sort: the sign of scoreB - scoreA.
compareMappings(a, b) ==
    LET scoreA == Mul(a.confidenceScore, getMagnitudeWeight(a.impactMagnitude))
        scoreB == Mul(b.confidenceScore, getMagnitudeWeight(b.impactMagnitude))
    IN  Cmp(scoreB, scoreA)

\* Array.prototype.sort(compareMappings): a stable sort.  x goes before the
\* first element the comparator puts after it.
RECURSIVE insertMapping(_, _)
insertMapping(sorted, x) ==
    IF sorted = <<>> THEN <<x>>
    ELSE IF compareMappings(Head(sorted), x) <= 0
         THEN <<Head(sorted)>> \o insertMapping(Tail(sorted), x)
         ELSE <<x>> \o sorted

RECURSIVE sortMappings(_)
sortMappings(mappings) ==
    IF mappings = <<>> THEN <<>>
    ELSE TheOne({insertMapping(sorted, mappings[Len(mappings)]) :
                    sorted \in {sortMappings(SubSeq(mappings, 1, Len(mappings) - 1))}})

\* Mutant of keepMapping: every mapping is kept.
keepMapping_Any(m) == TRUE

\* if (mapping && mapping.isRelevant): mapEventToBusiness never returns null.
keepMapping(m) == m.isRelevant

\* The loop of batchMapEventsToBusiness over events: the mappings pushed, or
\* the exception of the first call of mapEventToBusiness that throws.
RECURSIVE collectMappings(_, _, _)
collectMappings(events, businessModel, now) ==
    IF events = <<>> THEN [threw |-> FALSE, mappings |-> <<>>]
    ELSE TheOne({IF r.kind = "threw" \/ rest.threw
                 THEN [threw |-> TRUE, mappings |-> <<>>]
                 ELSE [threw |-> FALSE,
                       mappings |-> (IF keepMapping(r.mapping) THEN <<r.mapping>> ELSE <<>>)
                                        \o rest.mappings] :
                    r \in {mapEventToBusiness(Head(events), businessModel, now)},
                    rest \in {collectMappings(Tail(events), businessModel, now)}})

BatchReturned(ms) == [kind |-> "returned", mappings |-> ms]
BatchThrew == [kind |-> "threw", mappings |-> <<>>]

batchMapEventsToBusiness(events, businessModel, now) ==
    TheOne({IF collected.threw THEN BatchThrew
            ELSE BatchReturned(sortMappings(collected.mappings)) :
               collected \in {collectMappings(events, businessModel, now)}})

(***************************************************************************)
(* INSIGHT (Insight model)                                                 *)
(***************************************************************************)
\* Insight.calculateOverallConfidence
\* Mutant of calculateOverallConfidence: the result is clamped to [0, 1].
calculateOverallConfidence_Clamped(eventConfidence, causalPath) ==
    IF Len(causalPath) = 0 THEN NumMin(One, Mul(eventConfidence, Dec(5, 1)))
    ELSE NumMin(One, Mul(eventConfidence, pathConfidence(causalPath)))

calculateOverallConfidence(eventConfidence, causalPath) ==
    IF Len(causalPath) = 0 THEN Mul(eventConfidence, Dec(5, 1))
    ELSE Mul(eventConfidence, pathConfidence(causalPath))

(***************************************************************************)
(* INSIGHT GENERATOR (generator.ts).  A text is a sequence of fragments, an *)
(* optional text is <<>> (null) or <<text>>.  A provider response is what   *)
(* the HTTP call ended with: "rejected" (fetch failed), "notOk" (an error   *)
(* status), "noContent" (a body without the content field) or "content"    *)
(* with the text of the completion.                                        *)
(***************************************************************************)
\* A text is the empty string when all its fragments are.
isEmptyText(text) == \A i \in 1..Len(text) : text[i] = ""

\* callOpenAI and callAnthropic: the completion, '' for a body without
\* content, or an exception.
callProvider(response) ==
    IF response.kind \in {"rejected", "notOk"} THEN [kind |-> "threw", value |-> <<>>]
    ELSE IF response.kind = "noContent" \/ isEmptyText(response.content)
         THEN [kind |-> "returned", value |-> <<>>]
    ELSE [kind |-> "returned", value |-> response.content]

\* generateLLMExplanation calls the provider: a key is configured, and it is
\* the key of the provider chosen.
callsProvider(config) ==
    /\ ~(~config.openaiApiKey /\ ~config.anthropicApiKey)
    /\ \/ config.provider = "openai" /\ config.openaiApiKey
       \/ config.provider = "anthropic" /\ config.anthropicApiKey

\* generateLLMExplanation: the optional text it resolves to.  It never
\* rejects: an exception of the provider call is caught and gives null.
generateLLMExplanation(config, response) ==
    IF ~config.openaiApiKey /\ ~config.anthropicApiKey THEN <<>>
    ELSE IF callsProvider(config)
         THEN LET called == callProvider(response)
              IN  IF called.kind = "threw" THEN <<>> ELSE <<called.value>>
    ELSE <<>>

generateBasicExplanation(mapping) ==
    LET directionText ==
            IF mapping.impactDirection = "INCREASE" THEN "increase"
            ELSE IF mapping.impactDirection = "DECREASE" THEN "decrease"
            ELSE "affect"
        magnitudeText ==
            IF mapping.impactMagnitude = "HIGH" THEN "significantly"
            ELSE IF mapping.impactMagnitude = "MEDIUM" THEN "moderately"
            ELSE "slightly"
        horizonText ==
            IF mapping.timeHorizon = "SHORT" THEN "in the next 0-3 months"
            ELSE IF mapping.timeHorizon = "MEDIUM" THEN "over the next 3-12 months"
            ELSE "over 12+ months"
    IN
    <<"The event \"">> \o mapping.event.summary
        \o <<"\" is expected to ", magnitudeText, " ", directionText, " your business costs ",
             horizonText, ".\n\nThis impact primarily affects: ">>
        \o join([i \in 1..Len(mapping.affectedDrivers) |-> <<mapping.affectedDrivers[i]>>], ", ")
        \o <<".\n\nThe causal reasoning is as follows:\n">>
        \o join([i \in 1..Len(mapping.causalPath) |->
                    <<ToString(i), ". ", mapping.causalPath[i].description, ": ">>
                        \o mapping.causalPath[i].mechanism], "\n")
        \o <<"\n\nThis analysis is based on deterministic causal rules and your business model configuration.">>

\* Mutant of llmExplanation: only null falls back to the template.
llmExplanation_NullOnly(useLLM, config, response, mapping) ==
    LET generated == IF useLLM THEN generateLLMExplanation(config, response) ELSE <<>>
    IN  IF generated = <<>> THEN generateBasicExplanation(mapping) ELSE generated[1]

\* The explanation generateInsightsForBusiness stores: that of the provider
\* when useLLM is set and it is truthy, the template otherwise.
llmExplanation(useLLM, config, response, mapping) ==
    LET generated == IF useLLM THEN generateLLMExplanation(config, response) ELSE <<>>
    IN  IF generated = <<>> \/ isEmptyText(generated[1]) THEN generateBasicExplanation(mapping)
        ELSE generated[1]

(***************************************************************************)
(* JOB SCHEDULER (scheduler.ts).  The scheduler is its two maps, jobs and  *)
(* intervals (the names that hold a timer), and, per job, the number of    *)
(* calls of job.fn() whose promise is pending.                             *)
(***************************************************************************)
\* runJob up to its await: skip when job.running, else set it and call
\* job.fn().
runJob(s, name) ==
    IF s.jobs[name].running THEN s
    ELSE [s EXCEPT !.jobs[name].running = TRUE, !.inFlight[name] = @ + 1]

start(s, name) ==
    IF name \notin DOMAIN s.jobs THEN s
    ELSE IF name \in s.intervals THEN s
    ELSE [runJob(s, name) EXCEPT !.intervals = @ \cup {name}]

stop(s, name) ==
    LET cleared == [s EXCEPT !.intervals = @ \ {name}]
    IN  IF name \in DOMAIN s.jobs THEN [cleared EXCEPT !.jobs[name].running = FALSE]
        ELSE cleared

\* startAll over the names still to visit, in the order of this.jobs.keys().
RECURSIVE startAll(_, _)
startAll(s, names) ==
    IF names = <<>> THEN s ELSE startAll(start(s, Head(names)), Tail(names))

RECURSIVE stopAll(_, _)
stopAll(s, names) ==
    IF names = <<>> THEN s ELSE stopAll(stop(s, Head(names)), Tail(names))

(***************************************************************************)
(* INPUTS.  The events and business models the mapper is applied to.       *)
(***************************************************************************)
\* "Wages INCREASED": an increase keyword, in upper case
SummaryIncreased ==
    <<"W", "a", "g", "e", "s", " ", "I", "N", "C", "R", "E", "A", "S", "E", "D">>
\* "Prices fall": a decrease keyword
SummaryFall == <<"P", "r", "i", "c", "e", "s", " ", "f", "a", "l", "l">>
\* "Supply cut": "up" inside another word
SummarySupply == <<"S", "u", "p", "p", "l", "y", " ", "c", "u", "t">>
\* "Growth slows down": an increase keyword and a decrease keyword
SummaryGrowthDown ==
    <<"G", "r", "o", "w", "t", "h", " ", "s", "l", "o", "w", "s", " ", "d", "o", "w", "n">>
\* "Decline then rise": a decrease keyword before an increase keyword
SummaryDeclineRise ==
    <<"D", "e", "c", "l", "i", "n", "e", " ", "t", "h", "e", "n", " ", "r", "i", "s", "e">>
\* "New law": no keyword
SummaryNone == <<"N", "e", "w", " ", "l", "a", "w">>

Summaries ==
    {SummaryIncreased, SummaryFall, SummarySupply, SummaryGrowthDown, SummaryDeclineRise,
     SummaryNone}

\* The nine categories and a text that is no category: the eventType column
\* is TEXT, and Event.fromPrisma casts it to EventType unchecked.
Categories == EventType \cup {"UNKNOWN"}

EventRegions == {"US", "APAC", "GLOBAL"}

\* Event timestamps, relative to the initial clock 0: one day ahead, 89 days
\* back, one tick short of 90 days back, 100 days back.
Timestamps == {TicksPerDay, 0 - 89 * TicksPerDay, 1 - 90 * TicksPerDay, 0 - 100 * TicksPerDay}

Confidences == {Dec(25, 2), Dec(3, 1), Dec(4, 1), Dec(6, 1), Dec(8, 1), One, Dec(15, 1)}

AllEvents ==
    [id : {"event-1"}, eventType : Categories, summary : Summaries, region : EventRegions,
     timestamp : Timestamps, confidenceScore : Confidences]

\* The events applied: every category, region, timestamp and confidence with
\* the keyword-free summary, and every summary with every category and
\* confidence for a recent event in the US.
Events ==
    {e \in AllEvents :
        \/ e.summary = SummaryNone
        \/ e.region = "US" /\ e.timestamp = 0 - 89 * TicksPerDay}

WD(driver, weight) == [driver |-> driver, weight |-> weight]
SC(factor, sensitivity) == [factor |-> factor, sensitivity |-> sensitivity]

\* DEFAULT_SAAS_* of the SaaS template
SaaSFinance ==
    [revenueDrivers |-> <<WD("SUBSCRIPTION_REVENUE", Dec(85, 2)), WD("USAGE_REVENUE", Dec(10, 2)),
                          WD("SERVICES_REVENUE", Dec(5, 2))>>,
     costDrivers |-> <<WD("LABOR_COSTS", Dec(40, 2)), WD("INFRASTRUCTURE_COSTS", Dec(15, 2)),
                       WD("SALES_MARKETING", Dec(30, 2)), WD("R_AND_D", Dec(10, 2)),
                       WD("ADMINISTRATIVE", Dec(5, 2))>>,
     sensitivities |-> <<SC("LABOR", Dec(8, 1)), SC("INFRASTRUCTURE", Dec(7, 1)), SC("FX", Dec(4, 1)),
                         SC("REGULATION", Dec(6, 1)), SC("MARKET_DEMAND", Dec(7, 1))>>]

\* A business with no subscription revenue, little infrastructure cost and no
\* sensitivity configured.
LeanFinance ==
    [revenueDrivers |-> <<WD("USAGE_REVENUE", One)>>,
     costDrivers |-> <<WD("LABOR_COSTS", Dec(9, 1)), WD("INFRASTRUCTURE_COSTS", Dec(1, 1)),
                       WD("R_AND_D", Zero)>>,
     sensitivities |-> <<>>]

\* A business with sensitivities at the ends of [0, 1].
ExtremeFinance ==
    [revenueDrivers |-> <<WD("SUBSCRIPTION_REVENUE", One)>>,
     costDrivers |-> <<WD("LABOR_COSTS", Dec(5, 1)), WD("INFRASTRUCTURE_COSTS", Dec(5, 1))>>,
     sensitivities |-> <<SC("LABOR", One), SC("INFRASTRUCTURE", One), SC("FX", One),
                         SC("REGULATION", Dec(71, 2)), SC("MARKET_DEMAND", Zero)>>]

Finances == {SaaSFinance, LeanFinance, ExtremeFinance}

RegionConfigs ==
    {[operatingRegions |-> <<"US", "EU">>, customerRegions |-> <<"US", "APAC">>],
     [operatingRegions |-> <<"US">>, customerRegions |-> <<"US">>],
     [operatingRegions |-> <<"APAC">>, customerRegions |-> <<"APAC">>],
     [operatingRegions |-> <<"CA">>, customerRegions |-> <<"CA">>]}

BusinessModels ==
    {[id |-> "bm-1", revenueDrivers |-> f.revenueDrivers, costDrivers |-> f.costDrivers,
      sensitivities |-> f.sensitivities, operatingRegions |-> r.operatingRegions,
      customerRegions |-> r.customerRegions] : f \in Finances, r \in RegionConfigs}

\* The events of a batch: three relevant ones of different categories and
\* confidences, one below the confidence floor, one of a category without a
\* rule, and one that is 90 days old after one tick and is in a region only
\* some businesses are exposed to.
BatchEvent(id, eventType, region, timestamp, confidenceScore) ==
    [id |-> id, eventType |-> eventType, summary |-> SummaryNone, region |-> region,
     timestamp |-> timestamp, confidenceScore |-> confidenceScore]

BatchEvents ==
    {BatchEvent("event-1", "LABOR_MARKET", "US", 0 - 89 * TicksPerDay, Dec(8, 1)),
     BatchEvent("event-2", "CURRENCY", "GLOBAL", 0 - 89 * TicksPerDay, Dec(6, 1)),
     BatchEvent("event-3", "TECHNOLOGY", "US", 0 - 89 * TicksPerDay, Dec(4, 1)),
     BatchEvent("event-4", "LABOR_MARKET", "US", 0 - 89 * TicksPerDay, Dec(25, 2)),
     BatchEvent("event-5", "UNKNOWN", "US", 0 - 89 * TicksPerDay, Dec(8, 1)),
     BatchEvent("event-6", "REGULATION_CHANGE", "APAC", 1 - 90 * TicksPerDay, One)}

\* A batch holds at most MaxBatch events, repetitions included.
MaxBatch == 3

Batches == UNION {[1..n -> BatchEvents] : n \in 0..MaxBatch}

BatchBusinessModels ==
    {b \in BusinessModels :
        \/ b.revenueDrivers = SaaSFinance.revenueDrivers /\ b.operatingRegions = <<"US", "EU">>
        \/ b.revenueDrivers = ExtremeFinance.revenueDrivers /\ b.operatingRegions = <<"US">>}

\* The step confidences of the paths that are aggregated, and the event
\* confidences they are aggregated with.
StepConfidences == {Zero, Dec(5, 1), Dec(9, 1), Dec(95, 2), One}
PathEventConfidences == {Zero, Dec(3, 1), Dec(85, 2), One, Dec(15, 1)}

\* The arguments Event.calculateConfidence is applied to: reliabilities below
\* 0, inside [0, 1] and above 1, and summary lengths on both sides of the two
\* thresholds.
SourceReliabilities ==
    {Dec(-5, 1), Zero, Dec(3, 1), Dec(7, 1), Dec(9, 1), One, Dec(12, 1), Dec(15, 1), Dec(2, 0)}
SummaryLengths == {0, 49, 50, 150, 1000, 1001}
QualityInputs ==
    [sourceReliability : SourceReliabilities, hasSpecificRegion : BOOLEAN,
     hasTimestamp : BOOLEAN, summaryLength : SummaryLengths]

\* The contents of the Event table the generator runs on, in the order
\* findMany returns them (timestamp descending): two events that map; one
\* that maps, one below the confidence floor and one that is 100 days old;
\* one that maps and one of a category the catalog lacks.
EventTables ==
    {<<BatchEvent("event-1", "LABOR_MARKET", "US", 0 - 89 * TicksPerDay, Dec(8, 1)),
       BatchEvent("event-2", "CURRENCY", "GLOBAL", 0 - 89 * TicksPerDay, Dec(6, 1))>>,
     <<BatchEvent("event-1", "LABOR_MARKET", "US", 0 - 89 * TicksPerDay, Dec(8, 1)),
       BatchEvent("event-4", "LABOR_MARKET", "US", 0 - 89 * TicksPerDay, Dec(25, 2)),
       BatchEvent("event-7", "INFRASTRUCTURE", "US", 0 - 100 * TicksPerDay, One)>>,
     <<BatchEvent("event-1", "LABOR_MARKET", "US", 0 - 89 * TicksPerDay, Dec(8, 1)),
       BatchEvent("event-5", "UNKNOWN", "US", 0 - 89 * TicksPerDay, Dec(8, 1))>>}

\* The invocations of generateInsightsForBusiness that can be in progress at
\* once: the scheduled job and a request to the API.
Invocations == {"job", "api"}

\* At most MaxRuns runs of generateInsightsForBusiness are started.
MaxRuns == 2

\* The businessModelId argument: the id of the stored model, or one that no
\* model has.
BusinessModelIds == {"bm-1", "bm-missing"}

\* A call of the database resolves or rejects.
DbOutcomes == {"resolved", "rejected"}

\* config.llm: no key; the key of the provider chosen; the key of the other
\* provider only; an LLM_PROVIDER that is neither provider.
LLMConfigs ==
    {[provider |-> "openai", openaiApiKey |-> FALSE, anthropicApiKey |-> FALSE],
     [provider |-> "openai", openaiApiKey |-> TRUE, anthropicApiKey |-> FALSE],
     [provider |-> "anthropic", openaiApiKey |-> TRUE, anthropicApiKey |-> TRUE],
     [provider |-> "anthropic", openaiApiKey |-> TRUE, anthropicApiKey |-> FALSE],
     [provider |-> "other", openaiApiKey |-> TRUE, anthropicApiKey |-> TRUE]}

LLMResponses ==
    {[kind |-> "rejected", content |-> <<>>], [kind |-> "notOk", content |-> <<>>],
     [kind |-> "noContent", content |-> <<>>], [kind |-> "content", content |-> <<"">>],
     [kind |-> "content", content |-> <<"Explanation by the provider.">>]}

\* No provider has been called, and generateLLMExplanation has not been.
NotAsked ==
    [config |-> [provider |-> "openai", openaiApiKey |-> FALSE, anthropicApiKey |-> FALSE],
     response |-> [kind |-> "none", content |-> <<>>]]

\* The jobs initializeJobs registers, in the order of registration.
JobNames == <<"fetch-events", "generate-insights">>

\* At most MaxInFlight calls of one job's function are pending at once, and
\* at most MaxErrors failures of a job are counted.
MaxInFlight == 3
MaxErrors == 2

\* A causal path holds at most MaxPath steps.
MaxPath == 3

(***************************************************************************)
(* STATE.  One (event, business model) pair, the clock, what the last call *)
(* of mapEventToBusiness on the pair ended with, and the clock value that  *)
(* call read; a batch of events and what the last call of                  *)
(* batchMapEventsToBusiness on it ended with; a causal path, an event      *)
(* confidence and the confidences aggregated from them; what the last     *)
(* lookup of a rule and build of its path ended with; the source           *)
(* reliability and content quality of an ingested item and the confidence  *)
(* Event.calculateConfidence gave it; the Insight table, the position and  *)
(* locals of each invocation of generateInsightsForBusiness, the number of *)
(* runs started, whether two runs have been in progress at once, and how   *)
(* the run that returned last ended; the job scheduler.                    *)
(***************************************************************************)
VARIABLES event, businessModel, now, result, calledAt,
          events, batch,
          causalPath, eventConfidence, aggregated,
          built,
          quality, confidenceScore,
          insights, run, runs, overlap, lastResult,
          scheduler

mapperVars == <<event, businessModel, now, result, calledAt>>
batchVars == <<events, batch>>
pathVars == <<causalPath, eventConfidence, aggregated>>
catalogVars == <<built>>
qualityVars == <<quality, confidenceScore>>
generatorVars == <<insights, run, runs, overlap, lastResult>>
schedulerVars == <<scheduler>>
serviceVars == <<qualityVars, generatorVars, schedulerVars>>

vars == <<mapperVars, batchVars, pathVars, catalogVars, serviceVars>>

\* The clock advances at most MaxTicks ticks.
MaxTicks == 2

NotCalled == [kind |-> "none", mapping |-> <<>>]
BatchNotCalled == [kind |-> "none", mappings |-> <<>>]

\* The path confidence of the mapper's aggregator and the overall confidence
\* of the Insight model, for one event confidence and one path.
aggregate(e, path) ==
    [mapper |-> pathConfidence(path),
     insight |-> calculateOverallConfidence(e, path),
     confidence |->
         calculateConfidence([event EXCEPT !.confidenceScore = e], path, businessModel,
                             "LABOR", Len(getAssumptionsForEventType("LABOR_MARKET")))]

NoBatch == events = <<>> /\ batch = BatchNotCalled
NoPath == causalPath = <<>> /\ eventConfidence = One /\ aggregated = aggregate(One, <<>>)

NotBuilt == [kind |-> "none", path |-> <<>>]
NoCatalog == built = NotBuilt

\* No confidence has been calculated for the item.
NotScored == [kind |-> "none", value |-> Zero]
NoQuality ==
    /\ quality = [sourceReliability |-> One, hasSpecificRegion |-> TRUE,
                  hasTimestamp |-> TRUE, summaryLength |-> 150]
    /\ confidenceScore = NotScored

\* An invocation that has not been called.
Idle ==
    [pc |-> "idle", useLLM |-> FALSE, businessModelId |-> "bm-1", mappings |-> <<>>,
     index |-> 1, llm |-> NotAsked, llmExplanation |-> <<>>, created |-> 0, skipped |-> 0,
     errors |-> 0, mapped |-> FALSE, after |-> "none"]
NoGenerator ==
    /\ insights = <<>>
    /\ run = [p \in Invocations |-> Idle]
    /\ runs = 0
    /\ overlap = FALSE
    /\ lastResult = "none"

\* The scheduler after initializeJobs: both jobs registered, none started.
NoScheduler ==
    scheduler =
        [jobs |-> [n \in {JobNames[i] : i \in 1..Len(JobNames)} |->
                      [running |-> FALSE, errors |-> 0]],
         intervals |-> {},
         inFlight |-> [n \in {JobNames[i] : i \in 1..Len(JobNames)} |-> 0]]
NoService == NoQuality /\ NoGenerator /\ NoScheduler

Init ==
    /\ event \in Events
    /\ businessModel \in BusinessModels
    /\ now = 0
    /\ result = NotCalled
    /\ calledAt = 0
    /\ NoBatch
    /\ NoPath
    /\ NoCatalog
    /\ NoService

\* Time passes.
Tick ==
    /\ now < MaxTicks
    /\ now' = now + 1
    /\ UNCHANGED <<event, businessModel, result, calledAt, batchVars, pathVars, catalogVars, serviceVars>>

\* A caller applies mapEventToBusiness to the pair.
MapEvent ==
    /\ result' = mapEventToBusiness(event, businessModel, now)
    /\ calledAt' = now
    /\ UNCHANGED <<event, businessModel, now, batchVars, pathVars, catalogVars, serviceVars>>

Next == Tick \/ MapEvent

Spec == Init /\ [][Next]_vars

\* The batch mapper: a batch of events and a business model, mapped by
\* batchMapEventsToBusiness as time passes.
InitBatch ==
    /\ events \in Batches
    /\ businessModel \in BatchBusinessModels
    /\ now = 0
    /\ batch = BatchNotCalled
    /\ calledAt = 0
    /\ event = BatchEvent("event-1", "LABOR_MARKET", "US", 0 - 89 * TicksPerDay, Dec(8, 1))
    /\ result = NotCalled
    /\ NoPath
    /\ NoCatalog
    /\ NoService

\* A caller applies batchMapEventsToBusiness to the batch.
MapBatch ==
    /\ batch' = batchMapEventsToBusiness(events, businessModel, now)
    /\ calledAt' = now
    /\ UNCHANGED <<event, businessModel, now, result, events, pathVars, catalogVars, serviceVars>>

NextBatch == Tick \/ MapBatch

SpecBatch == InitBatch /\ [][NextBatch]_vars

\* The aggregators: a causal path that grows by one step at a time, each
\* time aggregated by the mapper's reduce and by
\* Insight.calculateOverallConfidence.
InitPath ==
    /\ event = BatchEvent("event-1", "LABOR_MARKET", "US", 0 - 89 * TicksPerDay, Dec(8, 1))
    /\ businessModel \in {b \in BatchBusinessModels : b.operatingRegions = <<"US">>}
    /\ causalPath = <<>>
    /\ eventConfidence \in PathEventConfidences
    /\ aggregated = aggregate(eventConfidence, <<>>)
    /\ now = 0
    /\ result = NotCalled
    /\ calledAt = 0
    /\ NoBatch
    /\ NoCatalog
    /\ NoService

\* One more step is appended to the path, and the path is aggregated again.
AppendStep ==
    /\ Len(causalPath) < MaxPath
    /\ \E c \in StepConfidences :
          causalPath' =
              Append(causalPath,
                     [step |-> Len(causalPath) + 1, description |-> "step",
                      mechanism |-> <<"mechanism">>, confidence |-> c])
    /\ aggregated' = aggregate(eventConfidence, causalPath')
    /\ UNCHANGED <<mapperVars, batchVars, eventConfidence, catalogVars, serviceVars>>

NextPath == AppendStep

SpecPath == InitPath /\ [][NextPath]_vars

\* The rule catalog: steps 2 to 4 of mapEventToBusiness, the lookup of the
\* rule of the event's category and the build of its path from the event's
\* summary and the business's context.
InitCatalog ==
    /\ event \in {e \in Events :
                    /\ e.region = "US"
                    /\ e.timestamp = 0 - 89 * TicksPerDay
                    /\ e.confidenceScore = Dec(8, 1)}
    /\ businessModel \in {b \in BusinessModels : b.operatingRegions = <<"US">>}
    /\ now = 0
    /\ result = NotCalled
    /\ calledAt = 0
    /\ NoBatch
    /\ NoPath
    /\ NoCatalog
    /\ NoService

BuildPath ==
    /\ built = NotBuilt
    /\ built' =
          LET rule == getCausalRule(event.eventType)
          IN  IF rule = <<>> THEN [kind |-> "threw", path |-> <<>>]
              ELSE [kind |-> "path",
                    path |-> getCausalPath(rule[1], event.summary,
                                 buildBusinessContext(businessModel, rule[1].affectedDrivers))]
    /\ UNCHANGED <<mapperVars, batchVars, pathVars, serviceVars>>

NextCatalog == BuildPath

SpecCatalog == InitCatalog /\ [][NextCatalog]_vars

InitQuality ==
    /\ quality \in QualityInputs
    /\ confidenceScore = NotScored
    /\ event = BatchEvent("event-1", "LABOR_MARKET", "US", 0 - 89 * TicksPerDay, Dec(8, 1))
    /\ businessModel \in {b \in BatchBusinessModels : b.operatingRegions = <<"US">>}
    /\ now = 0
    /\ result = NotCalled
    /\ calledAt = 0
    /\ NoBatch
    /\ NoPath
    /\ NoCatalog
    /\ NoGenerator
    /\ NoScheduler

\* The ingestion layer calculates the confidence of the item.
CalculateConfidence ==
    /\ confidenceScore' =
          [kind |-> "value",
           value |-> Event_calculateConfidence(quality.sourceReliability, quality.hasSpecificRegion,
                                               quality.hasTimestamp, quality.summaryLength)]
    /\ UNCHANGED <<mapperVars, batchVars, pathVars, catalogVars, quality, generatorVars,
                   schedulerVars>>

NextQuality == CalculateConfidence

SpecQuality == InitQuality /\ [][NextQuality]_vars

InitGenerator ==
    /\ events \in EventTables
    /\ batch = BatchNotCalled
    /\ businessModel \in {b \in BatchBusinessModels : b.operatingRegions = <<"US">>}
    /\ event = BatchEvent("event-1", "LABOR_MARKET", "US", 0 - 89 * TicksPerDay, Dec(8, 1))
    /\ now = 0
    /\ result = NotCalled
    /\ calledAt = 0
    /\ NoPath
    /\ NoCatalog
    /\ NoQuality
    /\ NoGenerator
    /\ NoScheduler

\* An invocation is between its call and its return.
InProgress(p) == run[p].pc \notin {"idle", "returned"}

\* The outer catch: errors++, then return { created, skipped, errors }.
outerCatch(r) == [r EXCEPT !.errors = @ + 1, !.pc = "returned"]

\* The head of the loop over mappings, from mapping r.index on: return after
\* the last mapping, count a mapping that is not relevant as skipped and go
\* on, and enter the inner try at a relevant one.
RECURSIVE forMappings(_)
forMappings(r) ==
    IF r.index > Len(r.mappings) THEN [r EXCEPT !.pc = "returned"]
    ELSE IF ~r.mappings[r.index].isRelevant
         THEN forMappings([r EXCEPT !.skipped = @ + 1, !.index = @ + 1])
    ELSE [r EXCEPT !.pc = "findFirst"]

\* Mutant of innerCatch: the failure of one mapping ends the run.
innerCatch_Rethrows(r) == outerCatch(r)

\* The inner catch: errors++, then the next mapping.
innerCatch(r) ==
    forMappings([r EXCEPT !.errors = @ + 1, !.index = @ + 1, !.llm = NotAsked,
                          !.llmExplanation = <<>>])

\* The invocation moves from r to r2; the other invocation and the table are
\* as the caller leaves them.  A run that returns after mapping the events
\* becomes the last result.
step(p, r2) ==
    /\ run' = [run EXCEPT ![p] = r2]
    /\ lastResult' = IF r2.pc = "returned" /\ r2.mapped
                     THEN (IF r2.errors = 0 THEN "clean" ELSE "failed")
                     ELSE lastResult
    /\ UNCHANGED <<mapperVars, batchVars, pathVars, catalogVars, qualityVars, runs, overlap,
                   schedulerVars>>

\* generateInsightsForBusiness(businessModelId, useLLM) is called.
Generate(p) ==
    /\ ~InProgress(p)
    /\ runs < MaxRuns
    /\ \E id \in BusinessModelIds, useLLM \in BOOLEAN :
          run' = [run EXCEPT ![p] =
                     [Idle EXCEPT !.pc = "findUnique", !.useLLM = useLLM,
                                  !.businessModelId = id, !.after = lastResult]]
    /\ runs' = runs + 1
    /\ overlap' = (overlap \/ \E q \in Invocations \ {p} : InProgress(q))
    /\ UNCHANGED <<mapperVars, batchVars, pathVars, catalogVars, qualityVars, insights,
                   lastResult, schedulerVars>>

\* prisma.businessModel.findUnique settles.
FindUnique(p) ==
    /\ run[p].pc = "findUnique"
    /\ \E outcome \in DbOutcomes :
          step(p, IF outcome = "rejected" \/ run[p].businessModelId # businessModel.id
                  THEN outerCatch(run[p])
                  ELSE [run[p] EXCEPT !.pc = "findMany"])
    /\ UNCHANGED insights

\* prisma.event.findMany settles and the events are mapped.  The query keeps
\* timestamp >= new Date(Date.now() - 90 * 24 * 60 * 60 * 1000).
FindMany(p) ==
    /\ run[p].pc = "findMany"
    /\ \E outcome \in DbOutcomes :
          LET withinLast90Days(e) == now - 90 * TicksPerDay <= e.timestamp
          IN
          step(p, IF outcome = "rejected" THEN outerCatch(run[p])
                  ELSE TheOne({IF mapped.kind = "threw" THEN outerCatch(run[p])
                               ELSE forMappings([run[p] EXCEPT !.mappings = mapped.mappings,
                                                               !.mapped = TRUE]) :
                                  mapped \in {batchMapEventsToBusiness(
                                                  SelectSeq(events, withinLast90Days),
                                                  businessModel, now)}}))
    /\ UNCHANGED insights

\* Mutant of findFirst: the lookup finds no row.
findFirst_Never(rows, businessModelId, eventId) == <<>>

\* prisma.insight.findFirst({ where: { businessModelId, eventId } }): the first
\* row of the pair, or null.
findFirst(rows, businessModelId, eventId) ==
    LET ofPair(row) == row.businessModelId = businessModelId /\ row.eventId = eventId
    IN  first(SelectSeq(rows, ofPair))

\* prisma.insight.findFirst settles.
FindFirst(p) ==
    /\ run[p].pc = "findFirst"
    /\ \E outcome \in DbOutcomes :
          LET r == run[p]
              existing == findFirst(insights, businessModel.id, r.mappings[r.index].event.id)
          IN  step(p, IF outcome = "rejected" THEN innerCatch(r)
                      ELSE IF existing # <<>>
                           THEN forMappings([r EXCEPT !.skipped = @ + 1, !.index = @ + 1])
                      ELSE [r EXCEPT !.pc = "explain"])
    /\ UNCHANGED insights

\* The explanation is chosen: generateLLMExplanation settles when useLLM is
\* set, and the template stands in for a falsy one.
Explain(p) ==
    /\ run[p].pc = "explain"
    /\ \E config \in LLMConfigs, response \in LLMResponses :
          step(p, [run[p] EXCEPT
                      !.llm = IF ~run[p].useLLM THEN NotAsked
                              ELSE [config |-> config,
                                    response |-> IF callsProvider(config) THEN response
                                                 ELSE NotAsked.response],
                      !.llmExplanation =
                          llmExplanation(run[p].useLLM, config, response,
                                         run[p].mappings[run[p].index]),
                      !.pc = "create"])
    /\ UNCHANGED insights

\* prisma.insight.create settles.
Create(p) ==
    /\ run[p].pc = "create"
    /\ \E outcome \in DbOutcomes :
          LET r == run[p]
              m == r.mappings[r.index]
          IN  IF outcome = "rejected"
              THEN step(p, innerCatch(r)) /\ UNCHANGED insights
              ELSE /\ insights' =
                         Append(insights,
                                [businessModelId |-> businessModel.id, eventId |-> m.event.id,
                                 impactDirection |-> m.impactDirection,
                                 impactMagnitude |-> m.impactMagnitude,
                                 confidenceScore |-> m.confidenceScore,
                                 llmExplanation |-> r.llmExplanation])
                   /\ step(p, forMappings([r EXCEPT !.created = @ + 1, !.index = @ + 1,
                                                    !.llm = NotAsked,
                                                    !.llmExplanation = <<>>]))

NextGenerator ==
    \E p \in Invocations :
          Generate(p) \/ FindUnique(p) \/ FindMany(p) \/ FindFirst(p) \/ Explain(p) \/ Create(p)

SpecGenerator == InitGenerator /\ [][NextGenerator]_vars

InitScheduler ==
    /\ NoScheduler
    /\ event = BatchEvent("event-1", "LABOR_MARKET", "US", 0 - 89 * TicksPerDay, Dec(8, 1))
    /\ businessModel \in {b \in BatchBusinessModels : b.operatingRegions = <<"US">>}
    /\ now = 0
    /\ result = NotCalled
    /\ calledAt = 0
    /\ NoBatch
    /\ NoPath
    /\ NoCatalog
    /\ NoQuality
    /\ NoGenerator

\* The scheduler moves to s, unless that would exceed the bound on the
\* pending calls.
schedule(s) ==
    /\ \A n \in DOMAIN s.inFlight : s.inFlight[n] <= MaxInFlight
    /\ scheduler' = s
    /\ UNCHANGED <<mapperVars, batchVars, pathVars, catalogVars, qualityVars, generatorVars>>

Start(name) == scheduler # start(scheduler, name) /\ schedule(start(scheduler, name))

Stop(name) == scheduler # stop(scheduler, name) /\ schedule(stop(scheduler, name))

StartAll ==
    /\ scheduler # startAll(scheduler, JobNames)
    /\ schedule(startAll(scheduler, JobNames))

StopAll ==
    /\ scheduler # stopAll(scheduler, JobNames)
    /\ schedule(stopAll(scheduler, JobNames))

\* The timer of a started job fires.
IntervalTick(name) ==
    /\ name \in scheduler.intervals
    /\ scheduler # runJob(scheduler, name)
    /\ schedule(runJob(scheduler, name))

\* A pending call of job.fn() settles: the catch counts a rejection, and the
\* finally clears job.running.
Complete(name) ==
    /\ scheduler.inFlight[name] > 0
    /\ \E rejected \in BOOLEAN :
          /\ rejected => scheduler.jobs[name].errors < MaxErrors
          /\ schedule([scheduler EXCEPT
                          !.jobs[name].errors = IF rejected THEN @ + 1 ELSE @,
                          !.jobs[name].running = FALSE,
                          !.inFlight[name] = @ - 1])

NextScheduler ==
    \/ StartAll
    \/ StopAll
    \/ \E i \in 1..Len(JobNames) :
          Start(JobNames[i]) \/ Stop(JobNames[i]) \/ IntervalTick(JobNames[i])
              \/ Complete(JobNames[i])

SpecScheduler == InitScheduler /\ [][NextScheduler]_vars

(***************************************************************************)
(* PROPERTIES                                                              *)
(***************************************************************************)
\* The mapping the last call returned.
Returns == result.kind = "returned"
mapping == result.mapping

\* The three conditions of the relevance filter, as section 4.1 states them,
\* for the call the state records.
RegionSet(b) ==
    {b.operatingRegions[i] : i \in 1..Len(b.operatingRegions)}
        \cup {b.customerRegions[i] : i \in 1..Len(b.customerRegions)}
GeoPass == event.region = "GLOBAL" \/ event.region \in RegionSet(businessModel)
AgeTicks == calledAt - event.timestamp
RecencyPass == AgeTicks <= 90 * TicksPerDay
FloorPass == Ge(event.confidenceScore, Dec(3, 1))

\* The kind of reason a returned mapping carries.
GeoReason == mapping.relevanceReason[1] = "Event in "
AgeReason == mapping.relevanceReason[1] = "Event is "
FloorReason ==
    mapping.relevanceReason = <<"Event has very low confidence score and may not be reliable">>

\* C1: the confidenceScore of every mapping mapEventToBusiness returns is at
\* least 0 and at most 1.
C1_ConfidenceBounded ==
    Returns => Ge(mapping.confidenceScore, Zero) /\ Le(mapping.confidenceScore, One)

\* A relevant mapping of an event with confidence above 1 for a business with
\* sensitivity 1.0 to the rule's factor, whose score the clamp cut to 1.
C1_Witness ==
    /\ Returns
    /\ mapping.isRelevant
    /\ Gt(event.confidenceScore, One)
    /\ getSensitivity(businessModel, CAUSAL_RULES[event.eventType].sensitivityFactor) = One
    /\ mapping.confidenceScore = One

\* C2: whenever the relevance filter rejects the event, the call returns (it
\* does not throw) the canonical null mapping, with the filter's reason as
\* rationale and as relevance reason.
C2_NullMapping ==
    (result.kind # "none" /\ ~checkRelevance(event, businessModel, calledAt).isRelevant)
        => /\ Returns
           /\ mapping.isRelevant = FALSE
           /\ mapping.impactMagnitude = "LOW"
           /\ mapping.impactDirection = "NEUTRAL"
           /\ mapping.confidenceScore = Zero
           /\ mapping.causalPath = <<>>
           /\ mapping.assumptions = <<>>
           /\ mapping.affectedDrivers = <<>>
           /\ mapping.confidenceRationale = checkRelevance(event, businessModel, calledAt).reason
           /\ mapping.relevanceReason = checkRelevance(event, businessModel, calledAt).reason

\* A rejected event of a category the catalog has no rule for: the null
\* mapping is returned all the same.
C2_Witness ==
    /\ Returns
    /\ ~mapping.isRelevant
    /\ event.eventType \notin EventType

\* C3: every returned mapping with isRelevant = true has a non-empty causalPath.
C3_RelevantHasPath ==
    (Returns /\ mapping.isRelevant) => Len(mapping.causalPath) > 0

\* A relevant mapping has been returned for an event of a category with no
\* assumption attached.
C3_Witness ==
    /\ Returns
    /\ mapping.isRelevant
    /\ event.eventType = "TECHNOLOGY"
    /\ Len(mapping.causalPath) = 3

\* C4: the filter checks geography, then recency, then the confidence floor;
\* the reason is that of the first check the event fails, and the event is
\* relevant only if it passes all three.
C4_FirstFailingCheck ==
    /\ Returns =>
        /\ ~GeoPass => ~mapping.isRelevant /\ GeoReason
        /\ (GeoPass /\ ~RecencyPass) => ~mapping.isRelevant /\ AgeReason
        /\ (GeoPass /\ RecencyPass /\ ~FloorPass) => ~mapping.isRelevant /\ FloorReason
        /\ mapping.isRelevant => GeoPass /\ RecencyPass /\ FloorPass
    /\ result.kind = "threw" => GeoPass /\ RecencyPass /\ FloorPass

\* An event that fails all three checks is reported as a geographic mismatch.
C4_Witness ==
    /\ Returns
    /\ ~GeoPass /\ ~RecencyPass /\ ~FloorPass
    /\ GeoReason

\* C5: the geographic check passes iff the region is GLOBAL or one of the
\* business's operating or customer regions; any other region gives
\* isRelevant = false with the geographic reason, whatever age and confidence.
C5_GeographicCheck ==
    Returns =>
        /\ GeoReason <=> ~GeoPass
        /\ ~GeoPass => ~mapping.isRelevant

\* An event in a region the business neither operates in nor sells to is
\* rejected for geography though it is recent and reliable.
C5_Witness ==
    /\ Returns
    /\ ~GeoPass /\ RecencyPass /\ FloorPass
    /\ ~mapping.isRelevant /\ GeoReason

\* C6: an event older than 90 days is never relevant; one aged 90 days or
\* less that passes the geography and confidence checks is relevant.
C6_Recency ==
    Returns =>
        /\ AgeTicks > 90 * TicksPerDay => ~mapping.isRelevant
        /\ (AgeTicks <= 90 * TicksPerDay /\ GeoPass /\ FloorPass) => mapping.isRelevant

\* An event aged exactly 90 days is relevant.
C6_Witness ==
    /\ Returns
    /\ AgeTicks = 90 * TicksPerDay
    /\ mapping.isRelevant

\* C7: an event with confidence below 0.3 is never relevant, whatever its
\* region and age; confidence exactly 0.3 is not rejected by the floor.
C7_ConfidenceFloor ==
    Returns =>
        /\ Lt(event.confidenceScore, Dec(3, 1)) => ~mapping.isRelevant
        /\ event.confidenceScore = Dec(3, 1) => ~FloorReason
        /\ (event.confidenceScore = Dec(3, 1) /\ GeoPass /\ RecencyPass) => mapping.isRelevant

\* An event with confidence exactly 0.3 is relevant.
C7_Witness ==
    /\ Returns
    /\ event.confidenceScore = Dec(3, 1)
    /\ mapping.isRelevant

\* The business's sensitivity to a factor, as the data model states it: the
\* configured value when the factor is set, 0.5 when it is not.
ConfiguredSensitivity(b, factor) ==
    IF \E i \in 1..Len(b.sensitivities) : b.sensitivities[i].factor = factor
    THEN b.sensitivities[CHOOSE i \in 1..Len(b.sensitivities) :
                            b.sensitivities[i].factor = factor].sensitivity
    ELSE Dec(5, 1)

\* The business's weight of a lever: 0 when the business does not list it.
LeverWeight(b, lever) ==
    LET all == b.revenueDrivers \o b.costDrivers
    IN  IF \E i \in 1..Len(all) : all[i].driver = lever
        THEN all[CHOOSE i \in 1..Len(all) : all[i].driver = lever].weight
        ELSE Zero

RECURSIVE SumOfWeights(_, _)
SumOfWeights(b, levers) ==
    IF levers = <<>> THEN Zero
    ELSE Add(LeverWeight(b, Head(levers)), SumOfWeights(b, Tail(levers)))

\* rawMagnitude as C8 states it.
StatedRawMagnitude ==
    LET rule == CAUSAL_RULES[event.eventType]
    IN  Mul(Mul(SumOfWeights(businessModel, rule.affectedDrivers),
                ConfiguredSensitivity(businessModel, rule.sensitivityFactor)),
            event.confidenceScore)

\* C8: for a relevant mapping, impactMagnitude is the bucket of rawMagnitude =
\* (sum of the business's weights of the rule's levers) x (business sensitivity
\* to the rule's factor) x (event confidence): HIGH iff above 0.05, MEDIUM iff
\* above 0.02 and at most 0.05, LOW iff at most 0.02.
C8_MagnitudeBuckets ==
    (Returns /\ mapping.isRelevant) =>
        mapping.impactMagnitude =
            IF Gt(StatedRawMagnitude, Dec(5, 2)) THEN "HIGH"
            ELSE IF Gt(StatedRawMagnitude, Dec(2, 2)) THEN "MEDIUM"
            ELSE "LOW"

\* A relevant mapping whose rawMagnitude is exactly 0.05 is MEDIUM.
C8_Witness ==
    /\ Returns
    /\ mapping.isRelevant
    /\ StatedRawMagnitude = Dec(5, 2)
    /\ mapping.impactMagnitude = "MEDIUM"

RECURSIVE ProductOfConfidences(_)
ProductOfConfidences(path) ==
    IF path = <<>> THEN One
    ELSE Mul(Head(path).confidence, ProductOfConfidences(Tail(path)))

\* The confidence as C9 states it, before clamping.
StatedConfidence ==
    LET rule == CAUSAL_RULES[event.eventType]
        q == IF event.eventType \in {"LABOR_MARKET", "INFRASTRUCTURE", "ECONOMIC_INDICATOR", "CURRENCY"}
             THEN One ELSE Dec(9, 1)
        n == Len(mapping.assumptions)
        b == IF Gt(ConfiguredSensitivity(businessModel, rule.sensitivityFactor), Dec(7, 1))
             THEN Dec(11, 1) ELSE One
    IN  Mul(Mul(Mul(Mul(event.confidenceScore, ProductOfConfidences(mapping.causalPath)), q),
                NumPow(Dec(95, 2), n)), b)

\* C9: for a relevant mapping, confidenceScore is the clamp to [0,1] of
\* eventConfidence x (product of the step confidences) x q x 0.95^n x b, with
\* q = 1.0 for the four high-confidence categories and 0.9 otherwise, n the
\* number of assumptions attached, and b = 1.1 iff the business sensitivity to
\* the rule's factor is strictly above 0.7.
C9_ConfidenceFormula ==
    (Returns /\ mapping.isRelevant) =>
        mapping.confidenceScore =
            IF Lt(StatedConfidence, Zero) THEN Zero
            ELSE IF Gt(StatedConfidence, One) THEN One
            ELSE StatedConfidence

\* A relevant CURRENCY mapping for a business whose sensitivity to the rule's
\* factor is above 0.7, with a score strictly between 0 and 1.
C9_Witness ==
    /\ Returns
    /\ mapping.isRelevant
    /\ event.eventType = "CURRENCY"
    /\ Gt(ConfiguredSensitivity(businessModel, "FX"), Dec(7, 1))
    /\ Len(mapping.assumptions) = 2
    /\ Gt(mapping.confidenceScore, Zero) /\ Lt(mapping.confidenceScore, One)

\* Whether the lower-cased summary contains one of the tokens.
ContainsAny(summary, tokens) ==
    \E t \in tokens : includes(toLowerCase(summary), t)

\* C10: the direction of a relevant mapping is INCREASE if the lower-cased
\* summary contains an increase token, otherwise DECREASE if it contains a
\* decrease token, otherwise the default direction of the category's rule.
C10_Direction ==
    (Returns /\ mapping.isRelevant) =>
        mapping.impactDirection =
            IF ContainsAny(event.summary, {KW_increase, KW_rise, KW_growth, KW_up}) THEN "INCREASE"
            ELSE IF ContainsAny(event.summary, {KW_decrease, KW_decline, KW_fall, KW_down})
            THEN "DECREASE"
            ELSE CAUSAL_RULES[event.eventType].defaultDirection

\* A relevant mapping of a summary with a decrease token before an increase
\* token, for a category whose default is DECREASE: the direction is INCREASE.
C10_Witness ==
    /\ Returns
    /\ mapping.isRelevant
    /\ event.summary = SummaryDeclineRise
    /\ event.eventType = "GEOPOLITICAL"
    /\ mapping.impactDirection = "INCREASE"

\* C11: two calls of mapEventToBusiness with the same event and business
\* model return equal mappings, whenever the two calls are made: a call made
\* after an earlier call ends as the earlier call did.
C11_Idempotent ==
    [][result.kind # "none" => result' = result]_vars

\* The last call of batchMapEventsToBusiness returned.
BatchReturns == batch.kind = "returned"

\* The number of positions of seq that hold x.
Occurrences(seq, x) == Cardinality({i \in 1..Len(seq) : seq[i] = x})

\* What mapEventToBusiness ends with for the event alone, at the clock value
\* the batch call read.
Alone(e) == mapEventToBusiness(e, businessModel, calledAt)

\* C12: batchMapEventsToBusiness returns exactly one mapping for each input
\* event, repetitions counted, that mapEventToBusiness deems relevant, and
\* none for an irrelevant event; every returned mapping is relevant and is
\* the mapping mapEventToBusiness returns for its event alone.
C12_BatchOnePerRelevantEvent ==
    BatchReturns =>
        /\ \A i \in 1..Len(batch.mappings) :
              /\ batch.mappings[i].isRelevant
              /\ \E j \in 1..Len(events) : Alone(events[j]) = Returned(batch.mappings[i])
        /\ \A j \in 1..Len(events) :
              Occurrences(batch.mappings, Alone(events[j]).mapping) =
                  IF Alone(events[j]).kind = "returned" /\ Alone(events[j]).mapping.isRelevant
                  THEN Occurrences(events, events[j])
                  ELSE 0
        /\ Len(batch.mappings) =
              Cardinality({j \in 1..Len(events) :
                              Alone(events[j]).kind = "returned"
                                  /\ Alone(events[j]).mapping.isRelevant})

\* A batch of a relevant event, an irrelevant event and the relevant event
\* again has been mapped to two equal mappings.
C12_Witness ==
    /\ BatchReturns
    /\ Len(events) = 3
    /\ events[1] = events[3]
    /\ events[2] # events[1]
    /\ ~Alone(events[2]).mapping.isRelevant
    /\ Len(batch.mappings) = 2
    /\ batch.mappings[1] = batch.mappings[2]
    /\ batch.mappings[1].event = events[1]

\* The priority of a mapping, as C13 states it.
Priority(m) ==
    Mul(m.confidenceScore,
        IF m.impactMagnitude = "HIGH" THEN Dec(3, 0)
        ELSE IF m.impactMagnitude = "MEDIUM" THEN Dec(2, 0)
        ELSE One)

\* C13: the list batchMapEventsToBusiness returns is ordered by
\* non-increasing priority confidenceScore x magnitudeWeight (HIGH 3,
\* MEDIUM 2, LOW 1), strictly descending when the priorities are pairwise
\* distinct, and the comparison of the sort is the order of the priorities:
\* it is determined by them, antisymmetric and transitive.
C13_BatchSortedByPriority ==
    BatchReturns =>
        LET ms == batch.mappings
            n == Len(ms)
        IN  /\ \A i, j \in 1..n : i < j => Ge(Priority(ms[i]), Priority(ms[j]))
            /\ (\A i, j \in 1..n : i # j => Priority(ms[i]) # Priority(ms[j]))
                  => \A i, j \in 1..n : i < j => Gt(Priority(ms[i]), Priority(ms[j]))
            /\ \A i, j \in 1..n :
                  /\ compareMappings(ms[i], ms[j]) = Cmp(Priority(ms[j]), Priority(ms[i]))
                  /\ compareMappings(ms[i], ms[j]) = 0 - compareMappings(ms[j], ms[i])
            /\ \A i, j, k \in 1..n :
                  (compareMappings(ms[i], ms[j]) <= 0 /\ compareMappings(ms[j], ms[k]) <= 0)
                      => compareMappings(ms[i], ms[k]) <= 0

\* A batch of three relevant events given in ascending order of priority has
\* been returned in strictly descending order.
C13_Witness ==
    /\ BatchReturns
    /\ Len(events) = 3
    /\ Len(batch.mappings) = 3
    /\ Lt(Priority(Alone(events[1]).mapping), Priority(Alone(events[2]).mapping))
    /\ Lt(Priority(Alone(events[2]).mapping), Priority(Alone(events[3]).mapping))
    /\ batch.mappings[1].event = events[3]
    /\ batch.mappings[3].event = events[1]
    /\ Gt(Priority(batch.mappings[1]), Priority(batch.mappings[2]))
    /\ Gt(Priority(batch.mappings[2]), Priority(batch.mappings[3]))

SingleCountry(b) == \E country \in {"US", "CA"} : RegionSet(b) = {country}

\* The text of the FX minimal-exposure warning.
FXWarning == "FX impact may be minimal: business operates only domestically."

\* The warnings the validation of the last call raised: the validator applied
\* to the mapping's assumptions and the context mapEventToBusiness builds.
RaisedWarnings ==
    validateAssumptionsForBusiness(mapping.assumptions,
        [hasInternationalOperations |-> hasInternational(businessModel.operatingRegions),
         hasInternationalCustomers |-> hasInternational(businessModel.customerRegions),
         operatesInRegion |-> hasRegionalExposure(businessModel, event.region)]).warnings

\* The rationale of the returned mapping has a caveat part.
MentionsCaveat ==
    \E i \in 1..Len(mapping.confidenceRationale) :
        mapping.confidenceRationale[i] = " caveat(s)"

\* C15: for a recent, sufficiently reliable CURRENCY event with region GLOBAL
\* and a business confined to one single country, the returned mapping is
\* relevant, validation raises the FX minimal-exposure warning, and the
\* rationale mentions the caveat.
C15_DomesticFXWarning ==
    (/\ result.kind # "none"
     /\ event.eventType = "CURRENCY"
     /\ event.region = "GLOBAL"
     /\ RecencyPass
     /\ FloorPass
     /\ SingleCountry(businessModel))
        => /\ Returns
           /\ mapping.isRelevant
           /\ \E i \in 1..Len(RaisedWarnings) : RaisedWarnings[i] = FXWarning
           /\ MentionsCaveat

\* A business confined to the US has been given the warning and the caveat
\* for a global currency event.
C15_Witness ==
    /\ Returns
    /\ event.eventType = "CURRENCY"
    /\ event.region = "GLOBAL"
    /\ RegionSet(businessModel) = {"US"}
    /\ mapping.isRelevant
    /\ RaisedWarnings = <<FXWarning>>
    /\ MentionsCaveat

\* The business models with the lever weights and sensitivities of b.
SameFinance(b) ==
    {b2 \in BusinessModels :
        /\ b2.revenueDrivers = b.revenueDrivers
        /\ b2.costDrivers = b.costDrivers
        /\ b2.sensitivities = b.sensitivities}

\* The warnings validation raises for the event and business model b2.
WarningsFor(b2) ==
    validateAssumptionsForBusiness(getAssumptionsForEventType(event.eventType),
        [hasInternationalOperations |-> hasInternational(b2.operatingRegions),
         hasInternationalCustomers |-> hasInternational(b2.customerRegions),
         operatesInRegion |-> hasRegionalExposure(b2, event.region)]).warnings

\* What the call the state records would have returned for business model b2.
Other(b2) == mapEventToBusiness(event, b2, calledAt)

\* C16: validation warnings never change the confidence number or the
\* assumptions: two business models with the same lever weights and
\* sensitivities for which the event is relevant get the same
\* confidenceScore, impactMagnitude and assumptions (and direction and
\* path), whether or not validation raises warnings for them; the rationale
\* differs exactly when the number of warnings differs.
C16_WarningsLeaveScore ==
    (Returns /\ mapping.isRelevant) =>
        \A b2 \in SameFinance(businessModel) :
            \A other \in {Other(b2)} :
                (other.kind = "returned" /\ other.mapping.isRelevant) =>
                    /\ other.mapping.confidenceScore = mapping.confidenceScore
                    /\ other.mapping.impactMagnitude = mapping.impactMagnitude
                    /\ other.mapping.assumptions = mapping.assumptions
                    /\ other.mapping.impactDirection = mapping.impactDirection
                    /\ other.mapping.causalPath = mapping.causalPath
                    /\ (other.mapping.confidenceRationale = mapping.confidenceRationale)
                           <=> (Len(WarningsFor(b2)) = Len(WarningsFor(businessModel)))

\* A relevant mapping for a business that gets a warning, while a business
\* with the same levers and sensitivities gets none: the scores are equal and
\* the rationales differ.
C16_Witness ==
    /\ Returns
    /\ mapping.isRelevant
    /\ WarningsFor(businessModel) # <<>>
    /\ \E b2 \in SameFinance(businessModel) :
          \E other \in {Other(b2)} :
              /\ WarningsFor(b2) = <<>>
              /\ other.kind = "returned"
              /\ other.mapping.isRelevant
              /\ other.mapping.confidenceScore = mapping.confidenceScore
              /\ other.mapping.confidenceRationale # mapping.confidenceRationale

\* The parts of the rationale as C17 states them, each a sequence of text
\* fragments.
ReliabilityTier ==
    IF Ge(event.confidenceScore, Dec(8, 1)) THEN <<"Event from highly reliable source">>
    ELSE IF Ge(event.confidenceScore, Dec(6, 1)) THEN <<"Event from moderately reliable source">>
    ELSE <<"Event from uncertain or unverified source">>

CertaintyTier ==
    IF event.eventType \in {"LABOR_MARKET", "INFRASTRUCTURE", "ECONOMIC_INDICATOR", "CURRENCY"}
    THEN <<"well-established causal relationship">>
    ELSE <<"uncertain or indirect causal relationship">>

PathDescriptor ==
    IF Len(mapping.causalPath) <= 2 THEN <<"direct impact">>
    ELSE <<ToString(Len(mapping.causalPath)), "-step causal chain">>

HighImpactCount ==
    Cardinality({i \in 1..Len(mapping.assumptions) : mapping.assumptions[i].impact = "HIGH"})

CaveatCount == Len(RaisedWarnings)

StatedRationale ==
    ReliabilityTier \o <<"; ">> \o CertaintyTier \o <<"; ">> \o PathDescriptor
        \o (IF HighImpactCount > 0
            THEN <<"; ", ToString(HighImpactCount), " critical assumption(s)">> ELSE <<>>)
        \o (IF CaveatCount > 0 THEN <<"; ", ToString(CaveatCount), " caveat(s)">> ELSE <<>>)
        \o <<".">>

\* C17: the rationale of a relevant mapping is, in this order and joined by
\* "; " and ended by one ".", the event-reliability tier (>= 0.8, >= 0.6,
\* otherwise), the rule-certainty tier (well-established iff the category is
\* in the high-confidence set), the path descriptor ("direct impact" iff at
\* most 2 steps, otherwise "<n>-step causal chain"), the count of HIGH-impact
\* assumptions only when positive, the count of caveats only when positive.
C17_RationaleText ==
    (Returns /\ mapping.isRelevant) => mapping.confidenceRationale = StatedRationale

\* A relevant mapping whose rationale has all five parts, with fewer critical
\* assumptions than assumptions.
C17_Witness ==
    /\ Returns
    /\ mapping.isRelevant
    /\ HighImpactCount > 0
    /\ HighImpactCount < Len(mapping.assumptions)
    /\ CaveatCount > 0
    /\ Len(mapping.confidenceRationale) = 13
    /\ mapping.confidenceRationale[13] = "."

\* C18: the catalog has one rule for each of the 9 categories and no other,
\* each keyed by its own category, with a non-empty lever list; its step
\* template gives, for any summary and context, at least one step, with
\* ordinals 1, 2, ..., n in order and every step confidence in (0, 1].
C18_CatalogWellFormed ==
    /\ Cardinality(EventType) = 9
    /\ DOMAIN CAUSAL_RULES = EventType
    /\ \A c \in EventType :
          /\ getCausalRule(c) = <<CAUSAL_RULES[c]>>
          /\ CAUSAL_RULES[c].eventType = c
          /\ Len(CAUSAL_RULES[c].affectedDrivers) > 0
    /\ (built.kind # "none" /\ event.eventType \in EventType) => built.kind = "path"
    /\ built.kind = "path" =>
          /\ Len(built.path) >= 1
          /\ \A i \in 1..Len(built.path) :
                /\ built.path[i].step = i
                /\ Gt(built.path[i].confidence, Zero)
                /\ Le(built.path[i].confidence, One)

\* The MARKET_SHIFT rule has built its path for a business with none of the
\* rule's levers (an empty context) and a summary with keywords: three
\* steps, with ordinals 1, 2, 3.
C18_Witness ==
    /\ built.kind = "path"
    /\ event.eventType = "MARKET_SHIFT"
    /\ event.summary = SummaryGrowthDown
    /\ buildBusinessContext(businessModel, CAUSAL_RULES["MARKET_SHIFT"].affectedDrivers) = <<>>
    /\ [i \in 1..Len(built.path) |-> built.path[i].step] = <<1, 2, 3>>

\* C19: getSensitivity(factor) returns the configured sensitivity for every
\* factor set in the business's sensitivity map, 0 included, and the default
\* 0.5 only for factors that are unset.
C19_GetSensitivity ==
    \A factor \in SensitivityFactor :
        getSensitivity(businessModel, factor) = ConfiguredSensitivity(businessModel, factor)

\* A relevant mapping has been computed for a business whose sensitivity to
\* the rule's factor is configured as 1.0, which getSensitivity returns.
C19_Witness ==
    /\ Returns
    /\ mapping.isRelevant
    /\ \E i \in 1..Len(businessModel.sensitivities) :
          /\ businessModel.sensitivities[i].factor = CAUSAL_RULES[event.eventType].sensitivityFactor
          /\ businessModel.sensitivities[i].sensitivity = One
    /\ getSensitivity(businessModel, CAUSAL_RULES[event.eventType].sensitivityFactor) = One

\* C20: for an event that passes the relevance filter and whose category has
\* no rule, mapEventToBusiness throws and returns no mapping; for an event
\* whose category is in the catalog it returns.
C20_UnknownCategoryFatal ==
    result.kind # "none" =>
        /\ (GeoPass /\ RecencyPass /\ FloorPass /\ event.eventType \notin EventType)
              => result = Threw
        /\ event.eventType \in EventType => Returns

\* A call on a recent, reliable event in the business's region, of a
\* category without a rule, has thrown.
C20_Witness ==
    /\ result = Threw
    /\ event.eventType = "UNKNOWN"
    /\ GeoPass /\ RecencyPass /\ FloorPass

\* The text of the regional-presence warning.
RegionalWarning == "Regional event may not affect business: no presence in affected region."

\* C27: no mapping mapEventToBusiness returns has the regional-presence
\* warning raised: the operatesInRegion flag is true for every event that
\* passed the geographic check, so the rationale of a relevant DISASTER
\* mapping has no caveat count.
C27_NoRegionalWarning ==
    Returns =>
        /\ mapping.isRelevant => hasRegionalExposure(businessModel, event.region)
        /\ \A i \in 1..Len(RaisedWarnings) : RaisedWarnings[i] # RegionalWarning
        /\ (mapping.isRelevant /\ event.eventType = "DISASTER") => ~MentionsCaveat

\* A relevant DISASTER mapping for an event in a region the business only
\* sells to: the regional assumption is attached and no caveat is mentioned.
C27_Witness ==
    /\ Returns
    /\ mapping.isRelevant
    /\ event.eventType = "DISASTER"
    /\ event.region = "APAC"
    /\ ~arrayIncludes(businessModel.operatingRegions, "APAC")
    /\ \E i \in 1..Len(mapping.assumptions) :
          mapping.assumptions[i].id = "DISASTER_REGIONAL_IMPACT"
    /\ ~MentionsCaveat

\* C30: whenever the filter rejects an event for recency, the age in days
\* stated in the reason is greater than 90.
C30_StatedAgeAbove90 ==
    (Returns /\ AgeReason) =>
        \E days \in 91..200 : mapping.relevanceReason[2] = ToString(days)

\* An event 100 days old has been rejected with the reason stating 100 days.
C30_Witness ==
    /\ Returns
    /\ AgeReason
    /\ mapping.relevanceReason[2] = "100"

\* The product of the factors of the mapper's confidence other than the path
\* factor, for the event and business of the aggregation: event confidence,
\* rule quality, assumption penalty and sensitivity bonus.
RemainingFactors ==
    LET q == IF event.eventType \in {"LABOR_MARKET", "INFRASTRUCTURE", "ECONOMIC_INDICATOR", "CURRENCY"}
             THEN One ELSE Dec(9, 1)
        n == Len(getAssumptionsForEventType("LABOR_MARKET"))
        b == IF Gt(ConfiguredSensitivity(businessModel, "LABOR"), Dec(7, 1))
             THEN Dec(11, 1) ELSE One
    IN  Mul(Mul(Mul(eventConfidence, q), NumPow(Dec(95, 2), n)), b)

C25_OverallConfidence ==
    aggregated.insight =
        IF causalPath = <<>> THEN Mul(eventConfidence, Dec(5, 1))
        ELSE Mul(eventConfidence, ProductOfConfidences(causalPath))

\* An event confidence of 1.5 aggregated over a path of two certain steps
\* stays 1.5, and the same confidence over the empty path gives 0.75.
C25_Witness ==
    /\ eventConfidence = Dec(15, 1)
    /\ Len(causalPath) = 2
    /\ \A i \in 1..2 : causalPath[i].confidence = One
    /\ aggregated.insight = Dec(15, 1)
    /\ calculateOverallConfidence(eventConfidence, <<>>) = Dec(75, 2)

\* The confidence Event.calculateConfidence gives the item with some of its
\* arguments replaced.
ConfidenceWith(hasSpecificRegion, hasTimestamp, summaryLength) ==
    Event_calculateConfidence(quality.sourceReliability, hasSpecificRegion, hasTimestamp,
                              summaryLength)

\* C23: Event.calculateConfidence returns a value in [0, 1] for every source
\* reliability, also below 0 and above 1, and the result for an item with a
\* quality defect (no specific region, no timestamp, summary shorter than 50
\* or longer than 1000) is never above the result for the same item without
\* that defect.
C23_EventConfidence ==
    confidenceScore.kind = "value" =>
        /\ Ge(confidenceScore.value, Zero)
        /\ Le(confidenceScore.value, One)
        /\ ~quality.hasSpecificRegion =>
              Le(confidenceScore.value,
                 ConfidenceWith(TRUE, quality.hasTimestamp, quality.summaryLength))
        /\ ~quality.hasTimestamp =>
              Le(confidenceScore.value,
                 ConfidenceWith(quality.hasSpecificRegion, TRUE, quality.summaryLength))
        /\ (quality.summaryLength < 50 \/ quality.summaryLength > 1000) =>
              \A good \in {n \in SummaryLengths : n >= 50 /\ n <= 1000} :
                  Le(confidenceScore.value,
                     ConfidenceWith(quality.hasSpecificRegion, quality.hasTimestamp, good))

\* An item of source reliability 1.5 with all three defects has the
\* confidence 1.5 x 0.8 x 0.7 x 0.9 = 0.756, below the 1 of the same item
\* without defects.
C23_Witness ==
    /\ confidenceScore.kind = "value"
    /\ quality.sourceReliability = Dec(15, 1)
    /\ ~quality.hasSpecificRegion
    /\ ~quality.hasTimestamp
    /\ quality.summaryLength = 1001
    /\ confidenceScore.value = Dec(756, 3)
    /\ ConfidenceWith(TRUE, TRUE, 150) = One

\* The rows of the Insight table for the stored business model and an event.
RowsOf(eventId) ==
    {i \in 1..Len(insights) :
        insights[i].businessModelId = businessModel.id /\ insights[i].eventId = eventId}

\* The pair of the mapping an invocation is at has a stored insight.
StoredForCurrent(p) == RowsOf(run[p].mappings[run[p].index].event.id) # {}

\* No pair (businessModelId, eventId) has two rows.
NoSecondInsight == \A i, j \in 1..Len(insights) :
    (insights[i].businessModelId = insights[j].businessModelId
        /\ insights[i].eventId = insights[j].eventId) => i = j

\* An invocation returns in this step.
Returning(p) == run[p].pc # "returned" /\ run'[p].pc = "returned"

C22_ExplanationStored ==
    /\ \A i \in 1..Len(insights) : ~isEmptyText(insights[i].llmExplanation)
    /\ \A p \in Invocations :
          run[p].pc = "create" =>
              /\ ~isEmptyText(run[p].llmExplanation)
              /\ (\/ ~run[p].useLLM
                  \/ ~run[p].llm.config.openaiApiKey /\ ~run[p].llm.config.anthropicApiKey
                  \/ run[p].llm.response.kind \in {"none", "rejected", "notOk", "noContent"}
                  \/ run[p].llm.response.content \in {<<>>, <<"">>})
                    => run[p].llmExplanation =
                           generateBasicExplanation(run[p].mappings[run[p].index])
              /\ (run[p].useLLM /\ run[p].llm.response.kind = "content"
                     /\ run[p].llm.response.content \notin {<<>>, <<"">>})
                    => run[p].llmExplanation = run[p].llm.response.content

\* The provider returned an empty completion, and the insight has been
\* stored with the template explanation.
C22_Witness ==
    /\ \E i \in 1..Len(insights) :
          /\ insights[i].eventId = "event-2"
          /\ insights[i].llmExplanation[1] = "The event \""
    /\ \E p \in Invocations :
          /\ run[p].pc = "create"
          /\ run[p].useLLM
          /\ run[p].llm.response = [kind |-> "content", content |-> <<"">>]
          /\ run[p].llmExplanation[1] = "The event \""

\* C26: generateInsightsForBusiness ends by returning its counts: 0, 0, 1 when
\* the business model does not exist (and whenever the model or the events
\* are not loaded or the mapper throws), and otherwise counts whose sum is the
\* number of mappings the batch mapper returned, a failure at one mapping
\* counting as one error.
C26_CountsAddUp ==
    \A p \in Invocations :
        /\ run[p].pc \in {"idle", "findUnique", "findMany", "findFirst", "explain", "create",
                          "returned"}
        /\ run[p].pc = "returned" =>
              /\ run[p].businessModelId # businessModel.id =>
                    (run[p].created = 0 /\ run[p].skipped = 0 /\ run[p].errors = 1)
              /\ ~run[p].mapped =>
                    (run[p].created = 0 /\ run[p].skipped = 0 /\ run[p].errors = 1)
              /\ run[p].mapped =>
                    run[p].created + run[p].skipped + run[p].errors = Len(run[p].mappings)
        /\ (run[p].pc \in {"findFirst", "explain", "create"}) =>
              run[p].created + run[p].skipped + run[p].errors = run[p].index - 1

\* A run over two mappings has returned after a failure at one mapping and
\* the creation of the insight of the other, and a run for a business model
\* that does not exist has returned 0, 0, 1.
C26_Witness ==
    \E p, q \in Invocations :
        /\ run[p].pc = "returned"
        /\ Len(run[p].mappings) = 2
        /\ run[p].errors = 1
        /\ run[p].created = 1
        /\ Len(insights) = 1
        /\ insights[1].eventId = run[p].mappings[2].event.id
        /\ run[q].pc = "returned"
        /\ run[q].businessModelId = "bm-missing"
        /\ run[q].errors = 1

\* C28: in every reachable state, under any interleaving of invocations of
\* generateInsightsForBusiness for the same business model, the Insight table
\* holds at most one row per pair (businessModelId, eventId).
C28_OneRowPerPair ==
    \A b \in BusinessModelIds, e \in {"event-1", "event-2", "event-4", "event-5", "event-7"} :
        Cardinality({i \in 1..Len(insights) :
                        insights[i].businessModelId = b /\ insights[i].eventId = e}) <= 1

\* Two invocations have overlapped and both have created the insight of the
\* same event.
C28_Witness ==
    /\ overlap
    /\ Len(insights) = 2
    /\ insights[1].eventId = insights[2].eventId
    /\ insights[1].businessModelId = insights[2].businessModelId

\* C29: for each registered job, at most one execution of the job's function
\* is in flight at any time, under any interleaving of start, stop, startAll,
\* stopAll, interval ticks and completions.
C29_OneExecutionInFlight ==
    \A n \in DOMAIN scheduler.inFlight : scheduler.inFlight[n] <= 1

\* Two executions of the generate-insights job are in flight while the job
\* is started and marked running.
C29_Witness ==
    /\ scheduler.inFlight["generate-insights"] = 2
    /\ "generate-insights" \in scheduler.intervals
    /\ scheduler.jobs["generate-insights"].running

====
